---- MODULE Spec2Model ----
(***************************************************************************)
(* Machine model of the super-rust-boy Game Boy emulator core: the memory  *)
(* bus (src/src/mem/bus.rs), the cartridge and its bank controllers        *)
(* (src/src/mem/cartridge/mod.rs) and the video registers and memories     *)
(* the bus reaches (src/src/video/mod.rs).                                 *)
(*                                                                         *)
(* Bytes are naturals in 0..255 and bus addresses naturals in 0..65535.    *)
(* A writeable memory is held sparsely: a function from the offsets that   *)
(* hold a non-zero byte to that byte (every memory of the program starts   *)
(* zeroed), which is the whole array, exactly.  A 16 KiB ROM page is held  *)
(* as the list of file extents that were read into it, newest first,       *)
(* which again determines every byte of the page.                          *)
(***************************************************************************)
EXTENDS Integers, Sequences, FiniteSets, TLC

VARIABLES
    rom_image,          \* the ROM file on disk: [len, mbc, ramsz, seed]
    cart,               \* MemBus.cart: Cartridge
    ram,                \* MemBus.ram: WriteableMem (work RAM, 0x2000 bytes)
    high_ram,           \* MemBus.high_ram: WriteableMem (0x7F bytes)
    interrupt_flag,     \* MemBus.interrupt_flag: InterruptFlags (pending)
    interrupt_enable,   \* MemBus.interrupt_enable: InterruptFlags (enabled)
    video_device,       \* MemBus.video_device: registers, tile, map and sprite memory
    audio_device,       \* MemBus.audio_device: register image 0xFF10..0xFF3F
    timer,              \* MemBus.timer: register image
    ppu,                \* the video unit's mode state machine: [mode, cycles]
    panicked,           \* TRUE once the process has unwound (index out of bounds)
    last_op,            \* history: the last operation applied and its arguments
    last_written,       \* history: last byte written to each observed register
    ram_written,        \* history: the last write that reached cartridge RAM or the RTC
    frame_seen,         \* history: cycles fed to video_mode and what it reported
    video_mem,          \* the renderer's video memory (VideoMem)
    target,             \* the line draw_line_gb last wrote
    tile_atlas,         \* the tile atlas (TileAtlas)
    atlas_seen,         \* history: planes set at one loc, data ref_data returned
    square1,            \* square channel 1: [regs, gen, buffer]
    square1_seen,       \* history: the last trigger and the samples since
    audio_pipe,         \* the channel to the audio thread: messages in flight
    pipe_seen,          \* history: messages the bus sent, messages the thread received
    n_ops               \* history: number of operations applied so far

vars == <<rom_image, cart, ram, high_ram, interrupt_flag, interrupt_enable,
          video_device, audio_device, timer, ppu, panicked, last_op, last_written,
          ram_written, frame_seen, video_mem, target, tile_atlas, atlas_seen,
          square1, square1_seen, audio_pipe, pipe_seen, n_ops>>

\* The variables by the component that owns them
bus_vars == <<rom_image, cart, ram, high_ram, interrupt_flag, interrupt_enable,
              video_device, audio_device, timer, ppu>>
history_vars == <<last_written, ram_written, frame_seen>>
draw_vars == <<video_mem, target>>
atlas_vars == <<tile_atlas, atlas_seen>>
square_vars == <<square1, square1_seen>>
pipe_vars == <<audio_pipe, pipe_seen>>
\* The components the bus does not reach
ext_vars == <<atlas_vars, square_vars>>

-----------------------------------------------------------------------------
(* Bounds of the model. *)

\* Operations applied in one behaviour of the bus specification.
MaxBusOps == 3
\* Operations applied in one behaviour of the cartridge specification.
MaxCartOps == 4
\* Operations applied in one behaviour of the DMA specification.
MaxDmaOps == 2
\* Operations applied in one behaviour of the video register specification.
MaxVideoOps == 4
\* Operations applied in one behaviour of the frame specification.
MaxPpuOps == 4
\* Operations applied in one behaviour of the atlas specification.
MaxAtlasOps == 3
\* Operations applied in one behaviour of the square channel specification.
MaxSquareOps == 3
\* Calls of the bus in one behaviour of the audio pipe specification.
MaxPipeOps == 5
\* Operations applied in one behaviour of the renderer specification.
MaxDrawOps == 3
\* Frames of cycles fed to video_mode in one behaviour.
MaxFrames == 1

-----------------------------------------------------------------------------
(* u8 arithmetic. *)

Byte == 0..255

RECURSIVE BitAnd(_, _)
BitAnd(a, b) ==
    IF a = 0 \/ b = 0 THEN 0
    ELSE (a % 2) * (b % 2) + 2 * BitAnd(a \div 2, b \div 2)

\* a | b: every bit set in either, the bits set in both counted once
BitOr(a, b) == a + b - BitAnd(a, b)

\* !x on a u8
BitNot8(a) == 255 - a

\* bit n of v, as 0 or 1
Bit(v, n) == (v \div (2 ^ n)) % 2

-----------------------------------------------------------------------------
(* Vec<u8> held sparsely: offsets holding a non-zero byte. *)

ZeroMem == <<>>

MemGet(m, i) == IF i \in DOMAIN m THEN m[i] ELSE 0

\* m with m[i] = v.  (@@ makes TLC build the function at once.)
MemSet(m, i, v) ==
    IF v = 0
    THEN IF i \in DOMAIN m THEN [j \in (DOMAIN m) \ {i} |-> m[j]] @@ <<>> ELSE m
    ELSE (i :> v) @@ m

\* The value a panicking read yields in the model: no byte.
IsPanic(x) == x < 0

\* WriteableMem::new(size)
WriteableMem_new(size) == [size |-> size, mem |-> ZeroMem]

\* WriteableMem::read: self.mem[loc] (out of range: panic)
WriteableMem_read(w, loc) == IF loc < w.size THEN MemGet(w.mem, loc) ELSE -1

\* WriteableMem::write: self.mem[loc] = val.  The caller checks the range.
WriteableMem_write(w, loc, val) == [w EXCEPT !.mem = MemSet(@, loc, val)]

-----------------------------------------------------------------------------
(* The ROM file.  Its bytes are a fixed pattern in which every bank differs *)
(* from every other at every offset (and the 256-byte pages of a bank      *)
(* from one another), with the two header bytes the cartridge decodes set  *)
(* from the image record.                                                  *)

RomByte(img, off) ==
    IF off = \h147 THEN img.mbc
    ELSE IF off = \h149 THEN img.ramsz
    ELSE ((off \div \h4000) * 37 + ((off \div \h100) % \h40) * 5 + (off % \h100) * 3
          + img.seed) % 256

\* Read::read into a 0x4000-byte buffer at stream position pos: the bytes the
\* file holds from pos on, at most 0x4000 (0 at or past the end of the file).
BytesRead(img, pos) ==
    IF pos >= img.len THEN 0
    ELSE IF img.len - pos >= \h4000 THEN \h4000 ELSE img.len - pos

\* A page [u8; 0x4000] into which extents of the file were read: newest
\* first; extent e covers page offsets 0..e.n-1 with file bytes e.pos+i.
\* An older extent no longer visible anywhere is dropped.
PageLoad(page, pos, n) ==
    IF n = 0 THEN page
    ELSE <<[pos |-> pos, n |-> n]>> \o SelectSeq(page, LAMBDA e : e.n > n)

\* The extent holding page offset i: 0 when the byte is still the initial 0.
PageExtent(page, i) ==
    LET hit == {k \in 1..Len(page) : i < page[k].n}
    IN  IF hit = {} THEN 0 ELSE CHOOSE k \in hit : \A j \in hit : k <= j

PageByte(img, page, i) ==
    LET k == PageExtent(page, i)
    IN  IF k = 0 THEN 0 ELSE RomByte(img, page[k].pos + i)

-----------------------------------------------------------------------------
(* MB1 and MB3 (mod mb1, mod mb3 of the cartridge module).                  *)

\* MB1::new: bank 1 selected, high register 0, ROM banking mode
MB1_new == [kind |-> "_1", lower |-> 1, upper |-> 0, ram_mode |-> FALSE]

\* MB1::set_lower: the 5-bit low register, 0 held as 1
MB1_set_lower(mb, val) ==
    LET v == BitAnd(val, \h1F)
    IN  [mb EXCEPT !.lower = IF v = 0 THEN 1 ELSE v]

\* MB1::set_upper: the 2-bit high register
MB1_set_upper(mb, val) == [mb EXCEPT !.upper = BitAnd(val, \h3)]

\* MB1::mem_type_select: 0 the high register extends the ROM bank, 1 it
\* selects the RAM bank
MB1_mem_type_select(mb, val) == [mb EXCEPT !.ram_mode = (BitAnd(val, 1) = 1)]

\* MB1::get_rom_bank
MB1_get_rom_bank(mb) ==
    IF mb.ram_mode THEN mb.lower ELSE mb.upper * 32 + mb.lower

\* MB1::get_ram_bank
MB1_get_ram_bank(mb) == IF mb.ram_mode THEN mb.upper ELSE 0

\* The five RTC registers MB3 selects with 0x08..0x0C
RtcRegs == \h8..\hC

\* MB3::new: cartridge RAM selected, RTC registers zero
MB3_new ==
    [kind |-> "_3", ram_select |-> TRUE, rtc_select |-> \h8,
     rtc |-> [r \in RtcRegs |-> 0], latched |-> FALSE]

\* MB3::select_rtc: reads and writes of 0xA000..0xBFFF go to RTC register x
MB3_select_rtc(mb, x) == [mb EXCEPT !.ram_select = FALSE, !.rtc_select = x]

\* MB3::latch_clock
MB3_latch_clock(mb) == [mb EXCEPT !.latched = TRUE]

\* MB3::get_rtc_reg
MB3_get_rtc_reg(mb) == mb.rtc[mb.rtc_select]

\* MB3::set_rtc_reg
MB3_set_rtc_reg(mb, val) == [mb EXCEPT !.rtc[mb.rtc_select] = val]

-----------------------------------------------------------------------------
(* Cartridge (src/src/mem/cartridge/mod.rs).                                *)

InRange(x, lo, hi) == lo <= x /\ x <= hi

\* Cartridge::new: let bank_type = match buf[0x147]
BankType(b) ==
    IF InRange(b, \h1, \h3) THEN MB1_new
    ELSE IF InRange(b, \h5, \h6) THEN [kind |-> "_2"]
    ELSE IF InRange(b, \hF, \h13) THEN MB3_new
    ELSE IF InRange(b, \h15, \h17) THEN [kind |-> "_4", reg |-> 0]
    ELSE IF InRange(b, \h19, \h1E) THEN [kind |-> "_5", reg |-> 0]
    ELSE [kind |-> "_0"]

\* Cartridge::new: let ram_size = match (&bank_type, buf[0x149])
RamSize(bank_type, b) ==
    IF bank_type.kind = "_2" THEN \h200
    ELSE IF b = \h1 THEN \h800
    ELSE IF b = \h2 THEN \h2000
    ELSE IF b = \h3 THEN \h8000
    ELSE 0

\* Variant of swap_rom_bank that reads the bank into rom_bank_0
Cartridge_swap_rom_bank_0(img, c, bank) ==
    LET pos == bank * \h4000
        n   == BytesRead(img, pos)
    IN  [c EXCEPT !.rom_bank_0 = PageLoad(@, pos, n),
                  !.rom_file = [seek |-> pos, got |-> n]]

\* Cartridge::swap_rom_bank: seek to bank * 0x4000, then read() into
\* rom_bank_n.  read() stores the bytes the file holds from there on and
\* leaves the rest of the page as it was.
Cartridge_swap_rom_bank(img, c, bank) ==
    LET pos == bank * \h4000
        n   == BytesRead(img, pos)
    IN  [c EXCEPT !.rom_bank_n = PageLoad(@, pos, n),
                  !.rom_file = [seek |-> pos, got |-> n]]

\* Cartridge::swap_ram_bank
Cartridge_swap_ram_bank(c, bank) == [c EXCEPT !.ram_offset = bank * \h2000]

\* Cartridge::new without the closing swap_rom_bank(1)
Cartridge_new_unswapped(img) ==
    LET n0        == BytesRead(img, 0)
        buf       == PageLoad(<<>>, 0, n0)
        bank_type == BankType(PageByte(img, buf, \h147))
    IN  [rom_bank_0 |-> buf,
         rom_bank_n |-> <<>>,
         ram        |-> ZeroMem,
         ram_size   |-> RamSize(bank_type, PageByte(img, buf, \h149)),
         rom_file   |-> [seek |-> 0, got |-> n0],
         mem_bank   |-> bank_type,
         ram_enable |-> FALSE,
         ram_offset |-> 0,
         battery    |-> FALSE]

\* Cartridge::new
Cartridge_new(img) ==
    LET n0        == BytesRead(img, 0)
        buf       == PageLoad(<<>>, 0, n0)
        bank_type == BankType(PageByte(img, buf, \h147))
        ram_size  == RamSize(bank_type, PageByte(img, buf, \h149))
        ret == [rom_bank_0 |-> buf,
                rom_bank_n |-> <<>>,
                ram        |-> ZeroMem,
                ram_size   |-> ram_size,
                rom_file   |-> [seek |-> 0, got |-> n0],
                mem_bank   |-> bank_type,
                ram_enable |-> FALSE,
                ram_offset |-> 0,
                battery    |-> FALSE]
    IN  Cartridge_swap_rom_bank(img, ret, 1)

\* self.ram[self.ram_offset + loc] is inside the vector
RamIndexOk(c, loc) == c.ram_offset + loc < c.ram_size

\* read_ram / write_ram address the RAM vector (not an RTC register)
RamSelected(c) == c.mem_bank.kind = "_3" => c.mem_bank.ram_select

\* Variant of read_ram without the ram_enable test
Cartridge_read_ram_unguarded(c, loc) ==
    IF RamSelected(c)
    THEN IF RamIndexOk(c, loc) THEN MemGet(c.ram, c.ram_offset + loc) ELSE -1
    ELSE MB3_get_rtc_reg(c.mem_bank)

\* Cartridge::read_ram (a negative result: the index panics)
Cartridge_read_ram(c, loc) ==
    IF c.ram_enable
    THEN IF RamSelected(c)
         THEN IF RamIndexOk(c, loc) THEN MemGet(c.ram, c.ram_offset + loc) ELSE -1
         ELSE MB3_get_rtc_reg(c.mem_bank)
    ELSE 0

\* Cartridge::write_ram panics
Cartridge_write_ram_panics(c, loc) ==
    c.ram_enable /\ RamSelected(c) /\ ~RamIndexOk(c, loc)

\* Variant of write_ram that stores the whole byte on every controller
Cartridge_write_ram_unmasked(c, loc, val) ==
    IF c.ram_enable
    THEN IF c.mem_bank.kind = "_3" /\ ~c.mem_bank.ram_select
         THEN [c EXCEPT !.mem_bank = MB3_set_rtc_reg(@, val)]
         ELSE [c EXCEPT !.ram = MemSet(@, c.ram_offset + loc, val)]
    ELSE c

\* Cartridge::write_ram
Cartridge_write_ram(c, loc, val) ==
    IF c.ram_enable
    THEN IF c.mem_bank.kind = "_2"
         THEN [c EXCEPT !.ram = MemSet(@, c.ram_offset + loc, BitAnd(val, \hF))]
         ELSE IF c.mem_bank.kind = "_3" /\ ~c.mem_bank.ram_select
         THEN [c EXCEPT !.mem_bank = MB3_set_rtc_reg(@, val)]
         ELSE [c EXCEPT !.ram = MemSet(@, c.ram_offset + loc, val)]
    ELSE c

\* Cartridge::read
Cartridge_read(img, c, loc) ==
    IF InRange(loc, \h0, \h3FFF) THEN PageByte(img, c.rom_bank_0, loc)
    ELSE IF InRange(loc, \h4000, \h7FFF) THEN PageByte(img, c.rom_bank_n, loc - \h4000)
    ELSE Cartridge_read_ram(c, loc - \hA000)

\* enum Swap
SwapNone == [kind |-> "None"]
SwapROM(rom) == [kind |-> "ROM", rom |-> rom]
SwapRAM(r) == [kind |-> "RAM", ram |-> r]
SwapBoth(rom, r) == [kind |-> "Both", rom |-> rom, ram |-> r]

\* Cartridge::write, MBC::_1 arm, 0x0000..0x1FFF: self.ram_enable = ...
MBC1_ram_enable(val) == BitAnd(val, \hA) = \hA

\* Cartridge::write, MBC::_1 arm: the register write
MBC1_command(c, loc, val) ==
    IF InRange(loc, \h0000, \h1FFF) THEN [c EXCEPT !.ram_enable = MBC1_ram_enable(val)]
    ELSE IF InRange(loc, \h2000, \h3FFF) THEN [c EXCEPT !.mem_bank = MB1_set_lower(@, val)]
    ELSE IF InRange(loc, \h4000, \h5FFF) THEN [c EXCEPT !.mem_bank = MB1_set_upper(@, val)]
    ELSE [c EXCEPT !.mem_bank = MB1_mem_type_select(@, val)]

\* Variant of the MBC::_1 swap instruction that drops the ROM swap when the
\* RAM bank changes too
MBC1_swap_ram_only(old_mb, new_mb) ==
    LET new_rom_bank == MB1_get_rom_bank(new_mb)
        new_ram_bank == MB1_get_ram_bank(new_mb)
    IN  IF new_ram_bank # MB1_get_ram_bank(old_mb) THEN SwapRAM(new_ram_bank)
        ELSE IF new_rom_bank # MB1_get_rom_bank(old_mb) THEN SwapROM(new_rom_bank)
        ELSE SwapNone

\* Cartridge::write, MBC::_1 arm: the swap instruction from the banks
\* selected before and after the register write
MBC1_swap(old_mb, new_mb) ==
    LET old_rom_bank == MB1_get_rom_bank(old_mb)
        old_ram_bank == MB1_get_ram_bank(old_mb)
        new_rom_bank == MB1_get_rom_bank(new_mb)
        new_ram_bank == MB1_get_ram_bank(new_mb)
        diff_rom_bank == new_rom_bank # old_rom_bank
        diff_ram_bank == new_ram_bank # old_ram_bank
    IN  IF diff_rom_bank /\ diff_ram_bank THEN SwapBoth(new_rom_bank, new_ram_bank)
        ELSE IF diff_rom_bank THEN SwapROM(new_rom_bank)
        ELSE IF diff_ram_bank THEN SwapRAM(new_ram_bank)
        ELSE SwapNone

\* Cartridge::write, MBC::_2 arm
MBC2_command(c, loc, val) ==
    IF InRange(loc, \h0000, \h1FFF)
    THEN [cart |-> [c EXCEPT !.ram_enable = (BitAnd(loc, \h10) = 0)], swap |-> SwapNone]
    ELSE IF InRange(loc, \h2000, \h3FFF)
    THEN [cart |-> c, swap |-> SwapROM(BitAnd(val, \hF))]
    ELSE [cart |-> c, swap |-> SwapNone]

\* Cartridge::write, MBC::_3 arm
MBC3_command(c, loc, val) ==
    IF InRange(loc, \h0000, \h1FFF)
    THEN [cart |-> [c EXCEPT !.ram_enable = (BitAnd(val, \hF) = \hA)], swap |-> SwapNone]
    ELSE IF InRange(loc, \h2000, \h3FFF) /\ val = 0
    THEN [cart |-> c, swap |-> SwapROM(1)]
    ELSE IF InRange(loc, \h2000, \h3FFF)
    THEN [cart |-> c, swap |-> SwapROM(val)]
    ELSE IF InRange(loc, \h4000, \h5FFF) /\ InRange(val, 0, 3)
    THEN [cart |-> c, swap |-> SwapRAM(val)]
    ELSE IF InRange(loc, \h4000, \h5FFF) /\ InRange(val, \h8, \hC)
    THEN [cart |-> [c EXCEPT !.mem_bank = MB3_select_rtc(@, val)], swap |-> SwapNone]
    ELSE IF InRange(loc, \h6000, \h7FFF) /\ val = 1
    THEN [cart |-> [c EXCEPT !.mem_bank = MB3_latch_clock(@)], swap |-> SwapNone]
    ELSE [cart |-> c, swap |-> SwapNone]

\* Cartridge::write: let swap_instr = match self.mem_bank
Cartridge_command(c, loc, val) ==
    IF c.mem_bank.kind = "_1"
    THEN LET c1 == MBC1_command(c, loc, val)
         IN  [cart |-> c1, swap |-> MBC1_swap(c.mem_bank, c1.mem_bank)]
    ELSE IF c.mem_bank.kind = "_2" THEN MBC2_command(c, loc, val)
    ELSE IF c.mem_bank.kind = "_3" THEN MBC3_command(c, loc, val)
    ELSE [cart |-> c, swap |-> SwapNone]

\* Cartridge::write: match swap_instr
Cartridge_apply_swap(img, c, swap_instr) ==
    IF swap_instr.kind = "Both"
    THEN Cartridge_swap_ram_bank(Cartridge_swap_rom_bank(img, c, swap_instr.rom),
                                 swap_instr.ram)
    ELSE IF swap_instr.kind = "ROM" THEN Cartridge_swap_rom_bank(img, c, swap_instr.rom)
    ELSE IF swap_instr.kind = "RAM" THEN Cartridge_swap_ram_bank(c, swap_instr.ram)
    ELSE c

\* Cartridge::write: the write goes to cartridge RAM
Cartridge_is_ram_write(loc) == loc >= \hA000 /\ loc < \hC000

\* Cartridge::write panics (an index of write_ram out of bounds)
Cartridge_write_panics(c, loc) ==
    Cartridge_is_ram_write(loc) /\ Cartridge_write_ram_panics(c, loc - \hA000)

\* Cartridge::write
Cartridge_write(img, c, loc, val) ==
    IF Cartridge_is_ram_write(loc)
    THEN Cartridge_write_ram(c, loc - \hA000, val)
    ELSE LET r == Cartridge_command(c, loc, val)
         IN  Cartridge_apply_swap(img, r.cart, r.swap)

-----------------------------------------------------------------------------
(* InterruptFlags (src/src/mem/mod.rs).                                     *)

V_BLANK  == 2 ^ 0
LCD_STAT == 2 ^ 1
TIMER    == 2 ^ 2
SERIAL   == 2 ^ 3
JOYPAD   == 2 ^ 4

\* InterruptFlags::all().bits()
AllFlags == BitOr(BitOr(BitOr(BitOr(V_BLANK, LCD_STAT), TIMER), SERIAL), JOYPAD)

\* Variant of from_bits_truncate that keeps every bit of the byte
from_bits_unchecked(val) == val

\* InterruptFlags::from_bits_truncate
from_bits_truncate(val) == BitAnd(val, AllFlags)

\* InterruptFlags::insert
Flags_insert(flags, other) == BitOr(flags, other)

\* Variant of remove without the complement
Flags_remove_kept(flags, other) == BitAnd(flags, other)

\* InterruptFlags::remove
Flags_remove(flags, other) == BitAnd(flags, BitNot8(other))

-----------------------------------------------------------------------------
(* The video unit (GBVideo, src/src/video/mod.rs).  Its joypad and         *)
(* palette registers (mod joypad, mod palette) hold the byte written.      *)

\* Joypad::new / read / write
Joypad_new == [select |-> 0]
Joypad_read(j) == BitOr(j.select, \hF)
Joypad_write(j, val) == [j EXCEPT !.select = BitAnd(val, \h30)]

\* BWPalette::new / read / write
BWPalette_new == [data |-> 0]
BWPalette_read(p) == p.data
BWPalette_write(p, val) == [p EXCEPT !.data = val]

\* GBVideo::new
GBVideo_new ==
    [display_enable   |-> TRUE,
     window_offset    |-> \h0,
     window_enable    |-> FALSE,
     tile_data_select |-> TRUE,
     bg_offset        |-> \h0,
     sprite_size      |-> FALSE,
     sprite_enable    |-> FALSE,
     bg_enable        |-> TRUE,
     lcd_status       |-> 0,
     scroll_y         |-> 0,
     scroll_x         |-> 0,
     lcdc_y           |-> 0,
     ly_compare       |-> 0,
     window_y         |-> 0,
     window_x         |-> 0,
     bg_palette       |-> BWPalette_new,
     obj_palette_0    |-> BWPalette_new,
     obj_palette_1    |-> BWPalette_new,
     joypad           |-> Joypad_new,
     raw_tile_mem     |-> ZeroMem,
     tile_map_mem     |-> ZeroMem,
     sprite_mem       |-> ZeroMem]

\* GBVideo::lcd_control_write
lcd_control_write(v, val) ==
    [v EXCEPT !.display_enable   = (BitAnd(val, \h80) = \h80),
              !.window_offset    = IF BitAnd(val, \h40) = \h40 THEN \h400 ELSE \h0,
              !.window_enable    = (BitAnd(val, \h20) = \h20),
              !.tile_data_select = (BitAnd(val, \h10) = \h10),
              !.bg_offset        = IF BitAnd(val, \h8) = \h8 THEN \h400 ELSE \h0,
              !.sprite_size      = (BitAnd(val, \h4) = \h4),
              !.sprite_enable    = (BitAnd(val, \h2) = \h2),
              !.bg_enable        = (BitAnd(val, \h1) = \h1)]

\* lcd_control_read taking bit 3 from the window map offset
lcd_control_read_window_map(v) ==
    LET val_7 == IF v.display_enable THEN \h80 ELSE 0
        val_6 == IF v.window_offset = \h400 THEN \h40 ELSE 0
        val_5 == IF v.window_enable THEN \h20 ELSE 0
        val_4 == IF v.tile_data_select THEN \h10 ELSE 0
        val_3 == IF v.window_offset = \h400 THEN \h8 ELSE 0
        val_2 == IF v.sprite_size THEN \h4 ELSE 0
        val_1 == IF v.sprite_enable THEN \h2 ELSE 0
        val_0 == IF v.bg_enable THEN \h1 ELSE 0
    IN  val_7 + val_6 + val_5 + val_4 + val_3 + val_2 + val_1 + val_0

\* GBVideo::lcd_control_read
lcd_control_read(v) ==
    LET val_7 == IF v.display_enable THEN \h80 ELSE 0
        val_6 == IF v.window_offset = \h400 THEN \h40 ELSE 0
        val_5 == IF v.window_enable THEN \h20 ELSE 0
        val_4 == IF v.tile_data_select THEN \h10 ELSE 0
        val_3 == IF v.bg_offset = \h400 THEN \h8 ELSE 0
        val_2 == IF v.sprite_size THEN \h4 ELSE 0
        val_1 == IF v.sprite_enable THEN \h2 ELSE 0
        val_0 == IF v.bg_enable THEN \h1 ELSE 0
    IN  BitOr(val_7, BitOr(val_6, BitOr(val_5, BitOr(val_4,
            BitOr(val_3, BitOr(val_2, BitOr(val_1, val_0)))))))

\* GBVideo::read (MemDevice)
GBVideo_read(v, loc) ==
    IF InRange(loc, \h8000, \h97FF) THEN MemGet(v.raw_tile_mem, loc - \h8000)
    ELSE IF InRange(loc, \h9800, \h9FFF) THEN MemGet(v.tile_map_mem, loc - \h9800)
    ELSE IF InRange(loc, \hFE00, \hFE9F) THEN MemGet(v.sprite_mem, loc - \hFE00)
    ELSE IF loc = \hFF00 THEN Joypad_read(v.joypad)
    ELSE IF loc = \hFF40 THEN lcd_control_read(v)
    ELSE IF loc = \hFF41 THEN v.lcd_status
    ELSE IF loc = \hFF42 THEN v.scroll_y
    ELSE IF loc = \hFF43 THEN v.scroll_x
    ELSE IF loc = \hFF44 THEN v.lcdc_y
    ELSE IF loc = \hFF45 THEN v.ly_compare
    ELSE IF loc = \hFF47 THEN BWPalette_read(v.bg_palette)
    ELSE IF loc = \hFF48 THEN BWPalette_read(v.obj_palette_0)
    ELSE IF loc = \hFF49 THEN BWPalette_read(v.obj_palette_1)
    ELSE IF loc = \hFF4A THEN v.window_y
    ELSE IF loc = \hFF4B THEN v.window_x
    ELSE 0

\* GBVideo::write (MemDevice); write_raw_tile stores into raw_tile_mem
GBVideo_write(v, loc, val) ==
    IF InRange(loc, \h8000, \h97FF) THEN [v EXCEPT !.raw_tile_mem = MemSet(@, loc - \h8000, val)]
    ELSE IF InRange(loc, \h9800, \h9FFF) THEN [v EXCEPT !.tile_map_mem = MemSet(@, loc - \h9800, val)]
    ELSE IF InRange(loc, \hFE00, \hFE9F) THEN [v EXCEPT !.sprite_mem = MemSet(@, loc - \hFE00, val)]
    ELSE IF loc = \hFF00 THEN [v EXCEPT !.joypad = Joypad_write(@, val)]
    ELSE IF loc = \hFF40 THEN lcd_control_write(v, val)
    ELSE IF loc = \hFF41 THEN [v EXCEPT !.lcd_status = val]
    ELSE IF loc = \hFF42 THEN [v EXCEPT !.scroll_y = val]
    ELSE IF loc = \hFF43 THEN [v EXCEPT !.scroll_x = val]
    ELSE IF loc = \hFF44 THEN [v EXCEPT !.lcdc_y = 0]
    ELSE IF loc = \hFF45 THEN [v EXCEPT !.ly_compare = val]
    ELSE IF loc = \hFF47 THEN [v EXCEPT !.bg_palette = BWPalette_write(@, val)]
    ELSE IF loc = \hFF48 THEN [v EXCEPT !.obj_palette_0 = BWPalette_write(@, val)]
    ELSE IF loc = \hFF49 THEN [v EXCEPT !.obj_palette_1 = BWPalette_write(@, val)]
    ELSE IF loc = \hFF4A THEN [v EXCEPT !.window_y = val]
    ELSE IF loc = \hFF4B THEN [v EXCEPT !.window_x = val]
    ELSE v

\* GBVideo::inc_lcdc_y: self.lcdc_y += 1 on a u8.  At 255 the addition
\* overflows: a build with overflow checks panics, one without wraps to 0.
GBVideo_inc_lcdc_y_overflows(v) == v.lcdc_y = 255
GBVideo_inc_lcdc_y(v) == [v EXCEPT !.lcdc_y = (@ + 1) % 256]

\* GBVideo::set_lcdc_y
GBVideo_set_lcdc_y(v, val) == [v EXCEPT !.lcdc_y = val]

-----------------------------------------------------------------------------
(* The mode state machine of the video unit (VideoDevice::video_mode).     *)
(* A scanline is 456 machine cycles: mode 2 for 80, mode 3 for 172, mode 0 *)
(* for 204; lines 144..153 are spent in mode 1.                            *)

MODE_2_CYCLES == 80
MODE_3_CYCLES == 172
MODE_0_CYCLES == 204
LINE_CYCLES == MODE_2_CYCLES + MODE_3_CYCLES + MODE_0_CYCLES
V_BLANK_LINE == 144
LAST_LINE == 153
FRAME_CYCLES == LINE_CYCLES * (LAST_LINE + 1)

\* The state machine at start: line 0, mode 2
Ppu_new == [mode |-> 2, cycles |-> 0]

\* LY == LYC: STAT bit 2 is set, and LCD-STAT raised if STAT bit 6 enables it
Ppu_coincidence(st) ==
    IF st.video.lcdc_y = st.video.ly_compare
    THEN [st EXCEPT !.video.lcd_status = BitOr(@, \h4),
                    !.int = IF BitAnd(st.video.lcd_status, \h40) = \h40
                            THEN Flags_insert(@, LCD_STAT) ELSE @]
    ELSE st

\* The cycles the current mode lasts
Ppu_mode_cycles(mode) ==
    IF mode = 2 THEN MODE_2_CYCLES
    ELSE IF mode = 3 THEN MODE_3_CYCLES
    ELSE IF mode = 0 THEN MODE_0_CYCLES
    ELSE LINE_CYCLES

\* The current mode has run its cycles
Ppu_due(st) == st.ppu.cycles >= Ppu_mode_cycles(st.ppu.mode)

\* One transition: the mode that follows, the line advanced at the end of
\* modes 0 and 1, V-BLANK raised and the frame reported on entering line 144
Ppu_transition(st) ==
    LET left == st.ppu.cycles - Ppu_mode_cycles(st.ppu.mode)
    IN  IF st.ppu.mode = 2
        THEN [st EXCEPT !.ppu = [mode |-> 3, cycles |-> left]]
        ELSE IF st.ppu.mode = 3
        THEN [st EXCEPT !.ppu = [mode |-> 0, cycles |-> left],
                        !.int = IF BitAnd(st.video.lcd_status, \h8) = \h8
                                THEN Flags_insert(@, LCD_STAT) ELSE @]
        ELSE IF st.ppu.mode = 0
        THEN LET v1 == GBVideo_inc_lcdc_y(st.video)
             IN  IF v1.lcdc_y = V_BLANK_LINE
                 THEN Ppu_coincidence(
                        [video |-> v1, ppu |-> [mode |-> 1, cycles |-> left],
                         ret |-> TRUE, int |-> Flags_insert(st.int, V_BLANK)])
                 ELSE Ppu_coincidence(
                        [st EXCEPT !.video = v1, !.ppu = [mode |-> 2, cycles |-> left]])
        ELSE IF st.video.lcdc_y = LAST_LINE
             THEN Ppu_coincidence(
                    [st EXCEPT !.video = GBVideo_set_lcdc_y(@, 0),
                               !.ppu = [mode |-> 2, cycles |-> left]])
             ELSE Ppu_coincidence(
                    [st EXCEPT !.video = GBVideo_inc_lcdc_y(@),
                               !.ppu = [mode |-> 1, cycles |-> left]])

\* The transitions that are due, in order, at most n of them: the first
\* half of them, then (if more are due) the rest
RECURSIVE Ppu_run_n(_, _)
Ppu_run_n(st, n) ==
    IF n <= 1
    THEN IF Ppu_due(st) THEN Ppu_transition(st) ELSE st
    ELSE LET half == Ppu_run_n(st, n \div 2)
         IN  IF Ppu_due(half) THEN Ppu_run_n(half, n - n \div 2) ELSE half

\* Every transition that is due: no mode is shorter than mode 2, so the
\* cycles at hand pay for at most cycles / 80 of them
Ppu_run(st) == Ppu_run_n(st, st.ppu.cycles \div MODE_2_CYCLES + 1)

\* VideoDevice::video_mode: the video unit and state machine after
\* cycle_count more cycles, whether the frame is complete (ret), and the
\* interrupts raised (int)
GBVideo_video_mode(v, p, cycle_count) ==
    Ppu_run([video |-> v, ppu |-> [p EXCEPT !.cycles = @ + cycle_count],
             ret |-> FALSE, int |-> 0])

-----------------------------------------------------------------------------
(* Timer (crate::timer) and the audio register image (crate::audio).       *)

\* Timer::new
Timer_new == [div |-> 0, div_acc |-> 0, tima |-> 0, tima_acc |-> 0, tma |-> 0, tac |-> 0]

\* Timer::read
Timer_read(t, loc) ==
    IF loc = \hFF04 THEN t.div
    ELSE IF loc = \hFF05 THEN t.tima
    ELSE IF loc = \hFF06 THEN t.tma
    ELSE IF loc = \hFF07 THEN t.tac
    ELSE 0

\* Timer::write
Timer_write(t, loc, val) ==
    IF loc = \hFF04 THEN [t EXCEPT !.div = 0]
    ELSE IF loc = \hFF05 THEN [t EXCEPT !.tima = val]
    ELSE IF loc = \hFF06 THEN [t EXCEPT !.tma = val]
    ELSE IF loc = \hFF07 THEN [t EXCEPT !.tac = BitAnd(val, \h7)]
    ELSE t

\* Machine cycles per TIMA tick for TAC[1:0]: 4096, 262144, 65536, 16384 Hz
TimaPeriod(tac) ==
    LET sel == BitAnd(tac, \h3)
    IN  IF sel = 0 THEN 1024 ELSE IF sel = 1 THEN 16 ELSE IF sel = 2 THEN 64 ELSE 256

\* Timer::update_timers: the timer after clock_count cycles, and whether
\* TIMA overflowed (it then reloads TMA)
Timer_update_timers(t, clock_count) ==
    LET d     == t.div_acc + clock_count
        t1    == [t EXCEPT !.div = (@ + d \div 256) % 256, !.div_acc = d % 256]
        on    == BitAnd(t.tac, \h4) = \h4
        total == t.tima_acc + clock_count
        next  == t.tima + total \div TimaPeriod(t.tac)
    IN  IF ~on THEN [timer |-> t1, overflow |-> FALSE]
        ELSE IF next > 255
        THEN [timer |-> [t1 EXCEPT !.tima = t.tma, !.tima_acc = total % TimaPeriod(t.tac)],
              overflow |-> TRUE]
        ELSE [timer |-> [t1 EXCEPT !.tima = next, !.tima_acc = total % TimaPeriod(t.tac)],
              overflow |-> FALSE]

\* AudioDevice register image: new / read / write
AudioDevice_new == [regs |-> ZeroMem]
AudioDevice_read(a, loc) == MemGet(a.regs, loc - \hFF10)
AudioDevice_write(a, loc, val) == [a EXCEPT !.regs = MemSet(@, loc - \hFF10, val)]

-----------------------------------------------------------------------------
(* MemBus (src/src/mem/bus.rs).  The operations are written on the bus as  *)
(* a record of its fields; the actions below apply them to the variables.  *)

\* MemBus::new
MemBus_new(img) ==
    [rom_image        |-> img,
     cart             |-> Cartridge_new(img),
     ram              |-> WriteableMem_new(\h2000),
     high_ram         |-> WriteableMem_new(\h7F),
     interrupt_flag   |-> 0,
     interrupt_enable |-> 0,
     video_device     |-> GBVideo_new,
     audio_device     |-> AudioDevice_new,
     timer            |-> Timer_new,
     ppu              |-> Ppu_new,
     panicked         |-> FALSE]

\* The bus of the current state
Bus ==
    [rom_image        |-> rom_image,
     cart             |-> cart,
     ram              |-> ram,
     high_ram         |-> high_ram,
     interrupt_flag   |-> interrupt_flag,
     interrupt_enable |-> interrupt_enable,
     video_device     |-> video_device,
     audio_device     |-> audio_device,
     timer            |-> timer,
     ppu              |-> ppu,
     panicked         |-> panicked]

\* MemBus::read, the arm `_ => self.ram.read(0)`
MemBus_read_undecoded(b, loc) == WriteableMem_read(b.ram, 0)

\* Variant of the mirror arm: the address falls through to the last arm
MemBus_read_mirror_undecoded(b, loc) == MemBus_read_undecoded(b, loc)

\* MemBus::read, the arm 0xE000...0xFDFF
MemBus_read_mirror(b, loc) == WriteableMem_read(b.ram, loc - \hE000)

\* MemBus::read (MemDevice); a negative result: the read panics
MemBus_read(b, loc) ==
    IF InRange(loc, \h0000, \h7FFF) THEN Cartridge_read(b.rom_image, b.cart, loc)
    ELSE IF InRange(loc, \h8000, \h9FFF) THEN GBVideo_read(b.video_device, loc)
    ELSE IF InRange(loc, \hA000, \hBFFF) THEN Cartridge_read(b.rom_image, b.cart, loc)
    ELSE IF InRange(loc, \hC000, \hDFFF) THEN WriteableMem_read(b.ram, loc - \hC000)
    ELSE IF InRange(loc, \hE000, \hFDFF) THEN MemBus_read_mirror(b, loc)
    ELSE IF InRange(loc, \hFE00, \hFE9F) THEN GBVideo_read(b.video_device, loc)
    ELSE IF loc = \hFF00 THEN GBVideo_read(b.video_device, loc)
    ELSE IF InRange(loc, \hFF03, \hFF07) THEN Timer_read(b.timer, loc)
    ELSE IF loc = \hFF0F THEN b.interrupt_flag
    ELSE IF InRange(loc, \hFF10, \hFF3F) THEN AudioDevice_read(b.audio_device, loc)
    ELSE IF InRange(loc, \hFF40, \hFF4B) THEN GBVideo_read(b.video_device, loc)
    ELSE IF InRange(loc, \hFF80, \hFFFE) THEN WriteableMem_read(b.high_ram, loc - \hFF80)
    ELSE IF loc = \hFFFF THEN b.interrupt_enable
    ELSE MemBus_read_undecoded(b, loc)

\* Variant of the loop body with the destination in the I/O page
MemBus_dma_step_io_page(b, hi_byte, lo_byte) ==
    LET src_addr  == BitOr(hi_byte, lo_byte)
        dest_addr == \hFF00 + lo_byte
        byte      == MemBus_read(b, src_addr)
    IN  IF IsPanic(byte) THEN [b EXCEPT !.panicked = TRUE]
        ELSE [b EXCEPT !.video_device = GBVideo_write(@, dest_addr, byte)]

\* MemBus::dma, the loop body for one lo_byte
MemBus_dma_step(b, hi_byte, lo_byte) ==
    LET src_addr  == BitOr(hi_byte, lo_byte)
        dest_addr == BitOr(\hFE00, lo_byte)
        byte      == MemBus_read(b, src_addr)
    IN  IF IsPanic(byte) THEN [b EXCEPT !.panicked = TRUE]
        ELSE [b EXCEPT !.video_device = GBVideo_write(@, dest_addr, byte)]

\* MemBus::dma, `for lo_byte in first..=last`, in ascending order: the lower
\* half of the range, then (unless that panicked) the upper half
RECURSIVE MemBus_dma_loop(_, _, _, _)
MemBus_dma_loop(b, hi_byte, first, last) ==
    IF first = last THEN MemBus_dma_step(b, hi_byte, first)
    ELSE LET mid  == (first + last) \div 2
             done == MemBus_dma_loop(b, hi_byte, first, mid)
         IN  IF done.panicked THEN done
             ELSE MemBus_dma_loop(done, hi_byte, mid + 1, last)

\* Variant of dma with the exclusive range 0..0x9F
MemBus_dma_exclusive(b, val) == MemBus_dma_loop(b, val * 256, \h0, \h9E)

\* MemBus::dma
MemBus_dma(b, val) == MemBus_dma_loop(b, val * 256, \h0, \h9F)

\* MemBus::write, the cartridge arms
MemBus_write_cart(b, loc, val) ==
    IF Cartridge_write_panics(b.cart, loc) THEN [b EXCEPT !.panicked = TRUE]
    ELSE [b EXCEPT !.cart = Cartridge_write(b.rom_image, @, loc, val)]

\* MemBus::write (MemDevice)
MemBus_write(b, loc, val) ==
    IF InRange(loc, \h0000, \h7FFF) THEN MemBus_write_cart(b, loc, val)
    ELSE IF InRange(loc, \h8000, \h9FFF) THEN [b EXCEPT !.video_device = GBVideo_write(@, loc, val)]
    ELSE IF InRange(loc, \hA000, \hBFFF) THEN MemBus_write_cart(b, loc, val)
    ELSE IF InRange(loc, \hC000, \hDFFF) THEN [b EXCEPT !.ram = WriteableMem_write(@, loc - \hC000, val)]
    ELSE IF InRange(loc, \hE000, \hFDFF) THEN [b EXCEPT !.ram = WriteableMem_write(@, loc - \hE000, val)]
    ELSE IF InRange(loc, \hFE00, \hFE9F) THEN [b EXCEPT !.video_device = GBVideo_write(@, loc, val)]
    ELSE IF loc = \hFF00 THEN [b EXCEPT !.video_device = GBVideo_write(@, loc, val)]
    ELSE IF InRange(loc, \hFF03, \hFF07) THEN [b EXCEPT !.timer = Timer_write(@, loc, val)]
    ELSE IF loc = \hFF0F THEN [b EXCEPT !.interrupt_flag = from_bits_truncate(val)]
    ELSE IF InRange(loc, \hFF10, \hFF3F) THEN [b EXCEPT !.audio_device = AudioDevice_write(@, loc, val)]
    ELSE IF InRange(loc, \hFF40, \hFF45) THEN [b EXCEPT !.video_device = GBVideo_write(@, loc, val)]
    ELSE IF loc = \hFF46 THEN MemBus_dma(b, val)
    ELSE IF InRange(loc, \hFF47, \hFF4B) THEN [b EXCEPT !.video_device = GBVideo_write(@, loc, val)]
    ELSE IF InRange(loc, \hFF80, \hFFFE) THEN [b EXCEPT !.high_ram = WriteableMem_write(@, loc - \hFF80, val)]
    ELSE IF loc = \hFFFF THEN [b EXCEPT !.interrupt_enable = from_bits_truncate(val)]
    ELSE b

\* update_timers raising TIMER whatever the timer reports
MemBus_update_timers_always_raising(b, clock_count) ==
    LET r == Timer_update_timers(b.timer, clock_count)
    IN  [b EXCEPT !.timer = r.timer,
                  !.interrupt_flag = Flags_insert(@, TIMER)]

\* MemBus::update_timers: the bus after the call (the message to the audio
\* thread is MemBus_update_timers_pipe)
MemBus_update_timers(b, clock_count) ==
    LET r == Timer_update_timers(b.timer, clock_count)
    IN  [b EXCEPT !.timer = r.timer,
                  !.interrupt_flag = IF r.overflow THEN Flags_insert(@, TIMER) ELSE @]

\* MemBus::video_mode: the bus after the call
MemBus_video_mode_int_dropped(b, cycle_count) ==
    LET r == GBVideo_video_mode(b.video_device, b.ppu, cycle_count)
    IN  [b EXCEPT !.video_device = r.video,
                  !.ppu = r.ppu]

MemBus_video_mode(b, cycle_count) ==
    LET r == GBVideo_video_mode(b.video_device, b.ppu, cycle_count)
    IN  [b EXCEPT !.video_device = r.video,
                  !.ppu = r.ppu,
                  !.interrupt_flag = Flags_insert(@, r.int)]

\* MemBus::video_mode: the value returned (the frame is complete)
MemBus_video_mode_ret(b, cycle_count) ==
    GBVideo_video_mode(b.video_device, b.ppu, cycle_count).ret

\* MemBus::get_interrupts
MemBus_get_interrupts(b) == BitAnd(b.interrupt_flag, b.interrupt_enable)

\* MemBus::clear_interrupt_flag
MemBus_clear_interrupt_flag(b, flag) == [b EXCEPT !.interrupt_flag = Flags_remove(@, flag)]

-----------------------------------------------------------------------------
(* History variables. *)

\* No byte was written (or what was written no longer stands)
NoVal == 0 - 1

\* An operation, its arguments, and the pending set it was applied to
Op(name, loc, val) == [op |-> name, loc |-> loc, val |-> val, pending |-> interrupt_flag]

LastWrittenInit == [pending |-> NoVal, enabled |-> NoVal, rom_lo |-> NoVal, rom_hi |-> NoVal]

\* last_written after write(loc, val)
LastWrittenAfter(lw, loc, val) ==
    IF loc = \hFF0F THEN [lw EXCEPT !.pending = val]
    ELSE IF loc = \hFFFF THEN [lw EXCEPT !.enabled = val]
    ELSE IF InRange(loc, \h2000, \h3FFF) THEN [lw EXCEPT !.rom_lo = val]
    ELSE IF InRange(loc, \h4000, \h5FFF) THEN [lw EXCEPT !.rom_hi = val]
    ELSE lw

\* What read_ram / write_ram address: the RAM offset, and for MB3 the RAM or
\* RTC register selection
RamSelection(c) ==
    [ram_offset |-> c.ram_offset,
     rtc |-> IF RamSelected(c) THEN NoVal ELSE c.mem_bank.rtc_select]

NoRamWrite == [loc |-> NoVal, val |-> NoVal, sel |-> NoVal, cycle |-> 0]

\* ram_written after write(loc, val) took cartridge c to c2.  cycle counts
\* the RAM-enable edges since the write: 1 once disabled, 2 once enabled again.
RamWrittenAfter(rw, c, c2, loc, val) ==
    IF Cartridge_is_ram_write(loc)
    THEN IF c.ram_enable /\ ~Cartridge_write_panics(c, loc)
         THEN [loc |-> loc, val |-> val, sel |-> RamSelection(c), cycle |-> 0]
         ELSE rw
    ELSE IF rw.loc = NoVal THEN rw
    ELSE IF rw.cycle = 0 /\ ~c2.ram_enable THEN [rw EXCEPT !.cycle = 1]
    ELSE IF rw.cycle = 1 /\ c2.ram_enable THEN [rw EXCEPT !.cycle = 2]
    ELSE rw

-----------------------------------------------------------------------------
(* The line renderer: video memory, its two map caches and draw_line_gb.    *)
(* A colour is the shade 0..3 a palette register gives a texel.  The cache  *)
(* map_cache[y][x] is held sparsely at offset y * MAP_CACHE_WIDTH + x.      *)

TILE_MAP_WIDTH == 32
SCREEN_WIDTH == 160

\* Texels along one side of a tile
TILE_SIDE == 8
\* Texels along one side of the tile space a map cache covers
MAP_CACHE_WIDTH == TILE_MAP_WIDTH * TILE_SIDE
\* Bytes of one tile: two per row
TILE_BYTES == 16

\* Colour::zero()
Colour_zero == 0

\* The shade palette register data gives texel
Palette_get_colour(data, texel) == (data \div (4 ^ texel)) % 4

\* Sprite: position, tile and attribute byte of one object
Sprite_palette_0(o) == Bit(o.flags, 4) = 0
Sprite_is_above_bg(o) == Bit(o.flags, 7) = 0

\* VideoMem::new: registers zero, memory zero, both caches to be built
VideoMem_new ==
    [lcd_control       |-> 0,
     scroll_y          |-> 0,
     scroll_x          |-> 0,
     lcdc_y            |-> 0,
     window_y          |-> 0,
     window_x          |-> 0,
     bg_palette        |-> 0,
     obj_palette_0     |-> 0,
     obj_palette_1     |-> 0,
     tile_mem          |-> ZeroMem,
     tile_map_0        |-> ZeroMem,
     tile_map_1        |-> ZeroMem,
     object_mem        |-> <<>>,
     map_cache_0       |-> ZeroMem,
     map_cache_0_dirty |-> TRUE,
     map_cache_1       |-> ZeroMem,
     map_cache_1_dirty |-> TRUE]

\* VideoMem::write: tile data, the two tile maps and the registers the
\* renderer reads; a write into tile data or a tile map marks the caches
\* built from it dirty
VideoMem_write(vm, loc, val) ==
    IF InRange(loc, \h8000, \h97FF)
    THEN [vm EXCEPT !.tile_mem = MemSet(@, loc - \h8000, val),
                    !.map_cache_0_dirty = TRUE,
                    !.map_cache_1_dirty = TRUE]
    ELSE IF InRange(loc, \h9800, \h9BFF)
    THEN [vm EXCEPT !.tile_map_0 = MemSet(@, loc - \h9800, val),
                    !.map_cache_0_dirty = TRUE]
    ELSE IF InRange(loc, \h9C00, \h9FFF)
    THEN [vm EXCEPT !.tile_map_1 = MemSet(@, loc - \h9C00, val),
                    !.map_cache_1_dirty = TRUE]
    ELSE IF loc = \hFF40 THEN [vm EXCEPT !.lcd_control = val]
    ELSE IF loc = \hFF42 THEN [vm EXCEPT !.scroll_y = val]
    ELSE IF loc = \hFF43 THEN [vm EXCEPT !.scroll_x = val]
    ELSE IF loc = \hFF47 THEN [vm EXCEPT !.bg_palette = val]
    ELSE IF loc = \hFF48 THEN [vm EXCEPT !.obj_palette_0 = val]
    ELSE IF loc = \hFF49 THEN [vm EXCEPT !.obj_palette_1 = val]
    ELSE IF loc = \hFF4A THEN [vm EXCEPT !.window_y = val]
    ELSE IF loc = \hFF4B THEN [vm EXCEPT !.window_x = val]
    ELSE vm

\* LCDC bit 5: window enable;  bit 0: background enable
VideoMem_get_window_enable(vm) == Bit(vm.lcd_control, 5) = 1
VideoMem_get_background_priority(vm) == Bit(vm.lcd_control, 0) = 1

\* The cache of the map LCDC bit 6 selects for the window, bit 3 for the
\* background
VideoMem_ref_window(vm) ==
    IF Bit(vm.lcd_control, 6) = 1 THEN vm.map_cache_1 ELSE vm.map_cache_0
VideoMem_ref_background(vm) ==
    IF Bit(vm.lcd_control, 3) = 1 THEN vm.map_cache_1 ELSE vm.map_cache_0

VideoMem_get_bg_colour(vm, texel) == Palette_get_colour(vm.bg_palette, texel)
VideoMem_get_obj_0_colour(vm, texel) == Palette_get_colour(vm.obj_palette_0, texel)
VideoMem_get_obj_1_colour(vm, texel) == Palette_get_colour(vm.obj_palette_1, texel)

\* ref_tile(tile_num).get_texel(x, y): bit 7 - x of the row's low-plane byte
\* and, doubled, of its high-plane byte
Tile_get_texel(vm, tile_num, x, y) ==
    LET row == tile_num * TILE_BYTES + 2 * y
    IN  Bit(MemGet(vm.tile_mem, row), 7 - x)
          + 2 * Bit(MemGet(vm.tile_mem, row + 1), 7 - x)

\* ref_objects_for_line(y): the objects with a row on line y, in OAM order;
\* the row of object o on line y is y + 8 - o.y, as sprite_pixel takes it
VideoMem_ref_objects_for_line(vm, y) ==
    SelectSeq(vm.object_mem, LAMBDA o : (y + 8 + 256 - o.y) % 256 < TILE_SIDE)

\* map_cache[y][x]
MapCache_at(cache, y, x) == MemGet(cache, y * MAP_CACHE_WIDTH + x)

SpritePixel_Hi(c) == [kind |-> "Hi", c |-> c]
SpritePixel_Lo(c) == [kind |-> "Lo", c |-> c]
SpritePixel_None == [kind |-> "None", c |-> Colour_zero]
BGPixel_NonZero(c) == [kind |-> "NonZero", c |-> c]
BGPixel_Zero(c) == [kind |-> "Zero", c |-> c]
\* window_pixel's None
BGPixel_absent == [kind |-> "absent", c |-> Colour_zero]

\* sprite_pixel: the first object whose 8 columns cover x decides
VideoMem_sprite_pixel(vm, objects, x, y) ==
    LET hi_x == x + 8
        hi_y == y + 8
        covering == {k \in DOMAIN objects :
                        (hi_x + 256 - objects[k].x) % 256 < 8}
    IN  IF covering = {} THEN SpritePixel_None
        ELSE LET o == objects[CHOOSE k \in covering : \A j \in covering : k <= j]
                 x_offset == (hi_x + 256 - o.x) % 256
                 y_offset == (hi_y + 256 - o.y) % 256
                 texel == Tile_get_texel(vm, o.tile_num, x_offset, y_offset)
                 pixel == IF Sprite_palette_0(o)
                          THEN VideoMem_get_obj_0_colour(vm, texel)
                          ELSE VideoMem_get_obj_1_colour(vm, texel)
             IN  IF texel = 0 THEN SpritePixel_None
                 ELSE IF Sprite_is_above_bg(o) THEN SpritePixel_Hi(pixel)
                 ELSE SpritePixel_Lo(pixel)

\* window_pixel
VideoMem_window_pixel(vm, x, y) ==
    IF VideoMem_get_window_enable(vm) /\ x >= vm.window_x /\ y >= vm.window_y
    THEN LET win_x == x - vm.window_x
             win_y == y - vm.window_y
             win_texel == MapCache_at(VideoMem_ref_window(vm), win_y, win_x)
         IN  IF win_texel = 0
             THEN BGPixel_Zero(VideoMem_get_bg_colour(vm, win_texel))
             ELSE BGPixel_NonZero(VideoMem_get_bg_colour(vm, win_texel))
    ELSE BGPixel_absent

\* background_pixel
VideoMem_background_pixel(vm, x, y) ==
    IF VideoMem_get_background_priority(vm)
    THEN LET bg_x == (vm.scroll_x + x) % 256
             bg_y == (vm.scroll_y + y) % 256
             bg_texel == MapCache_at(VideoMem_ref_background(vm), bg_y, bg_x)
         IN  IF bg_texel = 0
             THEN BGPixel_Zero(VideoMem_get_bg_colour(vm, bg_texel))
             ELSE BGPixel_NonZero(VideoMem_get_bg_colour(vm, bg_texel))
    ELSE BGPixel_Zero(Colour_zero)

\* The match of draw_line_gb with a low-priority sprite drawn over every
\* window and background pixel
VideoMem_draw_pixel_lo_on_top(vm, objects, x) ==
    LET sp == VideoMem_sprite_pixel(vm, objects, x, vm.lcdc_y)
        px == VideoMem_window_pixel(vm, x, vm.lcdc_y)
        bg == VideoMem_background_pixel(vm, x, vm.lcdc_y)
    IN  IF sp.kind # "None" THEN sp.c
        ELSE IF px.kind # "absent" THEN px.c
        ELSE bg.c

\* The colour draw_line_gb writes at column x: its match on the sprite
\* pixel, then on the window pixel if there is one, else the background's
VideoMem_draw_pixel(vm, objects, x) ==
    LET sp == VideoMem_sprite_pixel(vm, objects, x, vm.lcdc_y)
        px == VideoMem_window_pixel(vm, x, vm.lcdc_y)
        bg == VideoMem_background_pixel(vm, x, vm.lcdc_y)
    IN  IF sp.kind = "Hi" THEN sp.c
        ELSE IF sp.kind = "Lo"
        THEN IF px.kind # "absent"
             THEN (IF px.kind = "Zero" THEN sp.c ELSE px.c)
             ELSE (IF bg.kind = "Zero" THEN sp.c ELSE bg.c)
        ELSE IF px.kind # "absent" THEN px.c
        ELSE bg.c

\* The texels the loops over y and x of construct_map_cache write for one
\* map entry, in order: all go to the one cell [base_y][base_x]
ConstructWrites(vm, tile_num) ==
    [k \in 1..(TILE_SIDE * TILE_SIDE) |->
        Tile_get_texel(vm, tile_num, (k - 1) % TILE_SIDE, (k - 1) \div TILE_SIDE)]

\* The cell entry i of a tile map is written to: [i / 32][i % 32]
ConstructCell(i) == (i \div 32) * MAP_CACHE_WIDTH + (i % 32)

\* construct_map_cache_0 / construct_map_cache_1 on tile_map and cache: each
\* cell written keeps the last texel written to it, every other cell is as
\* before
VideoMem_construct_map_cache(vm, tile_map, cache) ==
    LET entries == 0..(TILE_MAP_WIDTH * TILE_MAP_WIDTH - 1)
        last(i) == ConstructWrites(vm, MemGet(tile_map, i))[TILE_SIDE * TILE_SIDE]
        set == {i \in entries : last(i) # 0}
        cells == {ConstructCell(i) : i \in entries}
        kept == (DOMAIN cache) \ cells
        entry(o) == (o \div MAP_CACHE_WIDTH) * 32 + (o % MAP_CACHE_WIDTH)
    IN  [o \in kept \cup {ConstructCell(i) : i \in set} |->
            IF o \in kept THEN cache[o] ELSE last(entry(o))] @@ <<>>

\* The head of draw_line_gb: rebuild the caches flagged dirty
VideoMem_rebuild_caches(vm) ==
    LET vm0 == IF vm.map_cache_0_dirty
               THEN [vm EXCEPT !.map_cache_0 =
                        VideoMem_construct_map_cache(vm, vm.tile_map_0, @)]
               ELSE vm
    IN  IF vm0.map_cache_1_dirty
        THEN [vm0 EXCEPT !.map_cache_1 =
                 VideoMem_construct_map_cache(vm0, vm0.tile_map_1, @)]
        ELSE vm0

\* No line drawn yet
NoLine == [y |-> 0 - 1, line |-> <<>>]

\* draw_line_gb: the video memory after it and the SCREEN_WIDTH colours
\* written for line lcdc_y
VideoMem_draw_line_gb(vm) ==
    LET rebuilt == VideoMem_rebuild_caches(vm)
        objects == VideoMem_ref_objects_for_line(rebuilt, rebuilt.lcdc_y)
    IN  [vm     |-> rebuilt,
         target |-> [y    |-> rebuilt.lcdc_y,
                     line |-> [x \in 0..(SCREEN_WIDTH - 1) |->
                                  VideoMem_draw_pixel(rebuilt, objects, x)]]]

-----------------------------------------------------------------------------
(* The tile atlas: one byte per texel, the two bit planes of a row set and  *)
(* read through loc, and its dirty flag.                                    *)

\* Texels of one tile in the atlas
TEX_AREA == 64

\* bit!(n)
bit(n) == 2 ^ n

\* TileAtlas::new(atlas_size)
TileAtlas_new(atlas_size) ==
    [atlas      |-> WriteableMem_new(atlas_size[1] * atlas_size[2] * TEX_AREA),
     atlas_size |-> atlas_size,
     dirty      |-> TRUE]

\* self.atlas[loc + i] is inside the vector for every i in 0..8
TileAtlas_row_in_range(t, loc) == loc + 7 < t.atlas.size

\* bit 7 - i of row, the bit of texel i
TileAtlas_row_bit(row, i) == BitAnd(row \div (2 ^ (7 - i)), 1)

\* set_pixel_lower_row with the upper plane of the row's texels dropped
RECURSIVE TileAtlas_set_lower_clobbering(_, _, _, _)
TileAtlas_set_lower_clobbering(mem, loc, row, i) ==
    IF i = 8 THEN mem
    ELSE TileAtlas_set_lower_clobbering(
             MemSet(mem, loc + i, TileAtlas_row_bit(row, i)), loc, row, i + 1)

\* The loop of set_pixel_lower_row from texel i on
RECURSIVE TileAtlas_set_lower(_, _, _, _)
TileAtlas_set_lower(mem, loc, row, i) ==
    IF i = 8 THEN mem
    ELSE TileAtlas_set_lower(
             MemSet(mem, loc + i,
                    BitOr(BitAnd(MemGet(mem, loc + i), bit(1)), TileAtlas_row_bit(row, i))),
             loc, row, i + 1)

\* The loop of set_pixel_upper_row from texel i on
RECURSIVE TileAtlas_set_upper(_, _, _, _)
TileAtlas_set_upper(mem, loc, row, i) ==
    IF i = 8 THEN mem
    ELSE TileAtlas_set_upper(
             MemSet(mem, loc + i,
                    BitOr(BitAnd(MemGet(mem, loc + i), bit(0)), TileAtlas_row_bit(row, i) * 2)),
             loc, row, i + 1)

\* TileAtlas::set_pixel_lower_row (the row is in range)
TileAtlas_set_pixel_lower_row(t, loc, row) ==
    [t EXCEPT !.atlas.mem = TileAtlas_set_lower(@, loc, row, 0),
              !.dirty = TRUE]

\* set_pixel_upper_row leaving the dirty flag as it is
TileAtlas_set_pixel_upper_row_flag_kept(t, loc, row) ==
    [t EXCEPT !.atlas.mem = TileAtlas_set_upper(@, loc, row, 0)]

\* TileAtlas::set_pixel_upper_row (the row is in range)
TileAtlas_set_pixel_upper_row(t, loc, row) ==
    [t EXCEPT !.atlas.mem = TileAtlas_set_upper(@, loc, row, 0),
              !.dirty = TRUE]

\* The fold of get_pixel_lower_row up to texel i: acc | (bit << shift), a
\* sum as every shift is another bit
RECURSIVE TileAtlas_fold_lower(_, _, _)
TileAtlas_fold_lower(t, loc, i) ==
    IF i < 0 THEN 0
    ELSE TileAtlas_fold_lower(t, loc, i - 1)
           + BitAnd(MemGet(t.atlas.mem, loc + i), bit(0)) * (2 ^ (7 - i))

\* The fold of get_pixel_upper_row up to texel i
RECURSIVE TileAtlas_fold_upper(_, _, _)
TileAtlas_fold_upper(t, loc, i) ==
    IF i < 0 THEN 0
    ELSE TileAtlas_fold_upper(t, loc, i - 1)
           + (BitAnd(MemGet(t.atlas.mem, loc + i), bit(1)) \div 2) * (2 ^ (7 - i))

\* TileAtlas::get_pixel_lower_row / get_pixel_upper_row (the row is in range)
TileAtlas_get_pixel_lower_row(t, loc) == TileAtlas_fold_lower(t, loc, 7)
TileAtlas_get_pixel_upper_row(t, loc) == TileAtlas_fold_upper(t, loc, 7)

\* TileAtlas::ref_data: the atlas after the call, and the data returned
TileAtlas_ref_data(t) == [t |-> [t EXCEPT !.dirty = FALSE], data |-> t.atlas.mem]

\* TileAtlas::is_dirty
TileAtlas_is_dirty(t) == t.dirty

\* History of the atlas: the planes set one after the other at one loc, and
\* the data the last ref_data returned
NoAtlasSeen == [loc |-> NoVal, lower |-> NoVal, upper |-> NoVal, data |-> ZeroMem, refs |-> 0]
AtlasSeenLower(s, loc, row) ==
    IF s.loc = loc THEN [s EXCEPT !.lower = row]
    ELSE [s EXCEPT !.loc = loc, !.lower = row, !.upper = NoVal]
AtlasSeenUpper(s, loc, row) ==
    IF s.loc = loc THEN [s EXCEPT !.upper = row]
    ELSE [s EXCEPT !.loc = loc, !.upper = row, !.lower = NoVal]

\* The size, in tiles, of the atlas the model builds
AtlasSize == <<1, 1>>

-----------------------------------------------------------------------------
(* Square channel 1: its register image and its generator.                  *)

\* common: the rate and modulus of frequency = FREQ_MAX / (FREQ_MOD - freq_n)
FREQ_MAX == 131072
FREQ_MOD == 2048

\* common: the duty patterns of NRx1 bits 7-6
DUTY_12_5 == 0
DUTY_25 == 64
DUTY_50 == 128
DUTY_75 == 192

\* Option<usize>::None of Square1Gen.length
NoLength == 0 - 1

\* Square1Regs::new
Square1Regs_new ==
    [sweep_reg        |-> 0,
     duty_length_reg  |-> 0,
     vol_envelope_reg |-> 0,
     freq_lo_reg      |-> 0,
     freq_hi_reg      |-> 0]

\* write_nrx0 .. write_nrx4
Square1Regs_write_nrx0(r, val) == [r EXCEPT !.sweep_reg = val]
Square1Regs_write_nrx1(r, val) == [r EXCEPT !.duty_length_reg = val]
Square1Regs_write_nrx2(r, val) == [r EXCEPT !.vol_envelope_reg = val]
Square1Regs_write_nrx3(r, val) == [r EXCEPT !.freq_lo_reg = val]
Square1Regs_write_nrx4(r, val) == [r EXCEPT !.freq_hi_reg = val]

\* write_nrx(x, val): the write of register x of the channel
Square1Regs_write_nrx(r, x, val) ==
    CASE x = 0 -> Square1Regs_write_nrx0(r, val)
      [] x = 1 -> Square1Regs_write_nrx1(r, val)
      [] x = 2 -> Square1Regs_write_nrx2(r, val)
      [] x = 3 -> Square1Regs_write_nrx3(r, val)
      [] x = 4 -> Square1Regs_write_nrx4(r, val)

\* triggered() with the trigger bit left set
Square1Regs_triggered_bit_kept(r) ==
    IF BitAnd(r.freq_hi_reg, \h80) # 0
    THEN [regs |-> r, ret |-> TRUE]
    ELSE [regs |-> r, ret |-> FALSE]

\* Square1Regs::triggered: the registers after the call and what it returns
Square1Regs_triggered(r) ==
    IF BitAnd(r.freq_hi_reg, \h80) # 0
    THEN [regs |-> [r EXCEPT !.freq_hi_reg = BitAnd(@, \h7F)], ret |-> TRUE]
    ELSE [regs |-> r, ret |-> FALSE]

\* Square1Gen::new(sample_rate)
Square1Gen_new(sample_rate) ==
    [sample_rate     |-> sample_rate,
     frequency       |-> 0,
     freq_sweep_step |-> 0,
     freq_counter    |-> 0,
     freq_sweep_dir  |-> "None",
     freq_shift_amt  |-> 0,
     phase           |-> 0,
     phase_len       |-> 1,
     duty_len        |-> 0,
     duty_reg_amt    |-> 0,
     length          |-> NoLength,
     amplitude       |-> 0,
     amp_sweep_step  |-> 0,
     amp_counter     |-> 0,
     amp_sweep_dir   |-> "None"]

\* calc_freq divides by a frequency of zero
Square1Gen_calc_freq_panics(g) == g.frequency = 0

\* Square1Gen::calc_freq
Square1Gen_calc_freq(g) ==
    LET phase_len == g.sample_rate \div g.frequency
    IN  [g EXCEPT !.phase_len = phase_len,
                  !.duty_len = CASE g.duty_reg_amt = DUTY_12_5 -> phase_len \div 8
                                 [] g.duty_reg_amt = DUTY_25   -> phase_len \div 4
                                 [] g.duty_reg_amt = DUTY_50   -> phase_len \div 2
                                 [] g.duty_reg_amt = DUTY_75   -> (phase_len \div 4) * 3
                                 [] OTHER                      -> phase_len \div 2]

\* init_signal: the direction of the frequency sweep
Square1Gen_init_sweep_dir(freq_sweep_step, regs) ==
    IF freq_sweep_step = 0 THEN "None"
    ELSE IF BitAnd(regs.vol_envelope_reg, \h8) # 0 THEN "Decrease"
    ELSE "Increase"

\* init_signal: the direction of the envelope
Square1Gen_init_amp_dir(amp_sweep_step, regs) ==
    IF amp_sweep_step = 0 THEN "None"
    ELSE IF BitAnd(regs.vol_envelope_reg, \h8) # 0 THEN "Increase"
    ELSE "Decrease"

\* init_signal: the length counter
Square1Gen_init_length(sample_rate, regs) ==
    IF BitAnd(regs.freq_hi_reg, \h40) # 0
    THEN (sample_rate * (64 - BitAnd(regs.duty_length_reg, \h3F))) \div 256
    ELSE NoLength

\* Square1Gen::init_signal
Square1Gen_init_signal(g, regs) ==
    LET freq_n == BitAnd(regs.freq_hi_reg, \h7) * 256 + regs.freq_lo_reg
        sweep_time == BitAnd(regs.sweep_reg, \h70) \div 16
        freq_sweep_step == (g.sample_rate * sweep_time) \div 128
        amp_sweep_step == (g.sample_rate * BitAnd(regs.vol_envelope_reg, \h7)) \div 64
    IN  Square1Gen_calc_freq(
          [g EXCEPT !.frequency = FREQ_MAX \div (FREQ_MOD - freq_n),
                    !.freq_sweep_step = freq_sweep_step,
                    !.freq_counter = 0,
                    !.freq_sweep_dir = Square1Gen_init_sweep_dir(freq_sweep_step, regs),
                    !.freq_shift_amt = BitAnd(regs.sweep_reg, \h7),
                    !.duty_reg_amt = BitAnd(regs.duty_length_reg, \hC0),
                    !.phase = 0,
                    !.length = Square1Gen_init_length(g.sample_rate, regs),
                    !.amplitude = BitAnd(regs.vol_envelope_reg, \hF0) \div 16,
                    !.amp_sweep_step = amp_sweep_step,
                    !.amp_counter = 0,
                    !.amp_sweep_dir = Square1Gen_init_amp_dir(amp_sweep_step, regs)])

\* generate_signal, one sample: the value written
Square1Gen_sample_out(g) ==
    IF (g.length = NoLength \/ g.length > 0) /\ g.phase < g.duty_len
    THEN g.amplitude
    ELSE 0

\* generate_signal, one sample: the frequency sweep
Square1Gen_freq_sweep(g) ==
    IF g.freq_counter + 1 >= g.freq_sweep_step
    THEN LET freq_modifier == g.frequency \div (2 ^ g.freq_shift_amt)
             swept == CASE g.freq_sweep_dir = "Increase" ->
                             [g EXCEPT !.frequency = @ + freq_modifier]
                        [] g.freq_sweep_dir = "Decrease" ->
                             [g EXCEPT !.frequency = @ - freq_modifier]
                        [] OTHER -> g
         IN  IF g.freq_sweep_dir = "None"
             THEN [panic |-> FALSE, gen |-> [g EXCEPT !.freq_counter = 0]]
             ELSE IF Square1Gen_calc_freq_panics(swept)
             THEN [panic |-> TRUE, gen |-> swept]
             ELSE [panic |-> FALSE,
                   gen |-> [Square1Gen_calc_freq(swept) EXCEPT !.freq_counter = 0]]
    ELSE [panic |-> FALSE, gen |-> [g EXCEPT !.freq_counter = @ + 1]]

\* the length counter never counting down
Square1Gen_length_step_held(g) == g

\* generate_signal, one sample: the length counter
Square1Gen_length_step(g) ==
    IF g.length # NoLength /\ g.length > 0 THEN [g EXCEPT !.length = @ - 1] ELSE g

\* the envelope rising past 15
Square1Gen_amp_sweep_uncapped(g) ==
    IF g.amp_counter + 1 >= g.amp_sweep_step
    THEN [g EXCEPT !.amp_counter = 0,
                   !.amplitude =
                      IF g.amp_sweep_dir = "Increase" THEN @ + 1
                      ELSE IF g.amp_sweep_dir = "Decrease" /\ @ > 0 THEN @ - 1
                      ELSE @]
    ELSE [g EXCEPT !.amp_counter = @ + 1]

\* generate_signal, one sample: the envelope
Square1Gen_amp_sweep(g) ==
    IF g.amp_counter + 1 >= g.amp_sweep_step
    THEN [g EXCEPT !.amp_counter = 0,
                   !.amplitude =
                      IF g.amp_sweep_dir = "Increase" /\ @ < 15 THEN @ + 1
                      ELSE IF g.amp_sweep_dir = "Decrease" /\ @ > 0 THEN @ - 1
                      ELSE @]
    ELSE [g EXCEPT !.amp_counter = @ + 1]

\* generate_signal, the body of the loop for one buffer entry: the value
\* written, the generator after it, and whether it panicked (remainder by a
\* phase_len of zero, division by a frequency of zero)
Square1Gen_sample(g) ==
    IF g.phase_len = 0
    THEN [out |-> Square1Gen_sample_out(g), gen |-> g, panic |-> TRUE]
    ELSE LET phased == [g EXCEPT !.phase = (@ + 1) % g.phase_len]
             swept == Square1Gen_freq_sweep(phased)
         IN  IF swept.panic
             THEN [out |-> Square1Gen_sample_out(g), gen |-> swept.gen, panic |-> TRUE]
             ELSE [out |-> Square1Gen_sample_out(g),
                   gen |-> Square1Gen_amp_sweep(Square1Gen_length_step(swept.gen)),
                   panic |-> FALSE]

\* generate_signal, the loop over the buffer entries skip .. take-1
RECURSIVE Square1Gen_generate_loop(_, _, _, _)
Square1Gen_generate_loop(g, buffer, i, take) ==
    IF i >= take
    THEN [gen |-> g, buffer |-> buffer, panic |-> FALSE]
    ELSE LET s == Square1Gen_sample(g)
         IN  IF s.panic
             THEN [gen |-> s.gen, buffer |-> [buffer EXCEPT ![i + 1] = s.out],
                   panic |-> TRUE]
             ELSE Square1Gen_generate_loop(s.gen, [buffer EXCEPT ![i + 1] = s.out],
                                           i + 1, take)

\* (buffer.len() as f32 * fraction) as usize, for a fraction of so many
\* eighths: the product is exact in f32 and the cast truncates
Square1Gen_slice_index(len, eighths) == (len * eighths) \div 8

\* generate_signal writing from the first entry of the buffer
Square1Gen_generate_signal_from_zero(g, buffer, start, end) ==
    LET take == Square1Gen_slice_index(Len(buffer), end)
    IN  Square1Gen_generate_loop(g, buffer, 0,
                                 IF take < Len(buffer) THEN take ELSE Len(buffer))

\* Square1Gen::generate_signal(buffer, start, end), start and end in eighths:
\* the generator and the buffer after the call, and whether it panicked
Square1Gen_generate_signal(g, buffer, start, end) ==
    LET take == Square1Gen_slice_index(Len(buffer), end)
        skip == Square1Gen_slice_index(Len(buffer), start)
    IN  Square1Gen_generate_loop(g, buffer, skip,
                                 IF take < Len(buffer) THEN take ELSE Len(buffer))

\* The sample rate the generator is made for, and the length of a buffer
SampleRate == 256
BufferLen == 8

\* History of the channel: whether a write of NRx4 has set the trigger bit
\* since the last call of triggered, what the last call returned, the
\* register image at the last trigger and the number of samples made since
\* (NoVal before the first trigger), the slice and the buffer of the last
\* call of generate_signal
NoSquare1Seen ==
    [armed |-> FALSE, ret |-> FALSE, regs |-> Square1Regs_new, n |-> NoVal,
     skip |-> 0, take |-> 0, before |-> << >>]

-----------------------------------------------------------------------------
(* The channel between the bus and the audio thread (main: channel()).      *)
(* The audio device holds the sending end and the audio thread the          *)
(* receiving end; a message is a clock-count update or a frame boundary.    *)

UpdateMessage(clock_count) == [kind |-> "update", val |-> clock_count]
FrameMessage == [kind |-> "frame", val |-> 0]

\* AudioDevice::send_update(clock_count) and AudioDevice::frame_update()
AudioDevice_send_update(pipe, clock_count) == Append(pipe, UpdateMessage(clock_count))
AudioDevice_frame_update(pipe) == Append(pipe, FrameMessage)

\* MemBus::update_timers with no message to the audio thread
MemBus_update_timers_pipe_silent(pipe, clock_count) == pipe

\* MemBus::update_timers: the channel after the call
MemBus_update_timers_pipe(pipe, clock_count) == AudioDevice_send_update(pipe, clock_count)

\* MemBus::render_frame: the channel after the call
MemBus_render_frame_pipe(pipe) == AudioDevice_frame_update(pipe)

\* History of the channel: the messages the bus was to send, in the order
\* of its calls, and the messages the audio thread has received
NoPipeSeen == [sent |-> << >>, received |-> << >>]
PipeSeenSent(seen, msg) == [seen EXCEPT !.sent = Append(@, msg)]
PipeSeenReceived(seen, msg) == [seen EXCEPT !.received = Append(@, msg)]

-----------------------------------------------------------------------------
(* History of the frame cycle. *)

\* Nothing fed to video_mode yet
NoFrameSeen == [cycles |-> 0, frames |-> 0, v_blanks |-> 0]

\* frame_seen after video_mode(cycle_count) on bus b: the cycles fed, the
\* calls that reported the frame complete, the calls that raised V-BLANK
FrameSeenAfter(fs, b, cycle_count) ==
    LET r == GBVideo_video_mode(b.video_device, b.ppu, cycle_count)
    IN  [cycles   |-> fs.cycles + cycle_count,
         frames   |-> fs.frames + (IF r.ret THEN 1 ELSE 0),
         v_blanks |-> fs.v_blanks + (IF BitAnd(r.int, V_BLANK) = V_BLANK THEN 1 ELSE 0)]

-----------------------------------------------------------------------------
(* Actions: one per operation of the bus. *)

\* The bus variables take the fields of bus value nb (computed once)
Becomes(nb) ==
    \E b \in {nb} :
        /\ rom_image' = b.rom_image
        /\ cart' = b.cart
        /\ ram' = b.ram
        /\ high_ram' = b.high_ram
        /\ interrupt_flag' = b.interrupt_flag
        /\ interrupt_enable' = b.interrupt_enable
        /\ video_device' = b.video_device
        /\ audio_device' = b.audio_device
        /\ timer' = b.timer
        /\ ppu' = b.ppu
        /\ panicked' = b.panicked
        /\ UNCHANGED <<draw_vars, ext_vars>>

InitBusWith(images) ==
    /\ rom_image \in images
    /\ cart = MemBus_new(rom_image).cart
    /\ ram = MemBus_new(rom_image).ram
    /\ high_ram = MemBus_new(rom_image).high_ram
    /\ interrupt_flag = MemBus_new(rom_image).interrupt_flag
    /\ interrupt_enable = MemBus_new(rom_image).interrupt_enable
    /\ video_device = MemBus_new(rom_image).video_device
    /\ audio_device = MemBus_new(rom_image).audio_device
    /\ timer = MemBus_new(rom_image).timer
    /\ ppu = MemBus_new(rom_image).ppu
    /\ panicked = MemBus_new(rom_image).panicked
    /\ last_op = Op("new", 0, 0)
    /\ last_written = LastWrittenInit
    /\ ram_written = NoRamWrite
    /\ frame_seen = NoFrameSeen
    /\ n_ops = 0

\* The tile atlas as constructed
InitAtlasVars ==
    /\ tile_atlas = TileAtlas_new(AtlasSize)
    /\ atlas_seen = NoAtlasSeen

\* Square channel 1 as constructed, holding register image regs
InitSquareVars(regs) ==
    /\ square1 = [regs |-> regs, gen |-> Square1Gen_new(SampleRate),
                  buffer |-> [i \in 1..BufferLen |-> 0]]
    /\ square1_seen = [NoSquare1Seen EXCEPT
                         !.armed = BitAnd(regs.freq_hi_reg, \h80) # 0]

\* The channel main makes, nothing sent
InitPipeVars ==
    /\ audio_pipe = << >>
    /\ pipe_seen = NoPipeSeen

\* The components the bus does not reach, as constructed
InitExt ==
    /\ InitAtlasVars
    /\ InitSquareVars(Square1Regs_new)
    /\ InitPipeVars

InitWith(images) ==
    /\ InitBusWith(images)
    /\ video_mem = VideoMem_new
    /\ target = NoLine
    /\ InitExt

\* write(loc, val)
Write(loc, val) ==
    /\ ~panicked
    /\ Becomes(MemBus_write(Bus, loc, val))
    /\ UNCHANGED pipe_vars
    /\ last_op' = Op("write", loc, val)
    /\ last_written' = LastWrittenAfter(last_written, loc, val)
    /\ ram_written' = RamWrittenAfter(ram_written, cart, cart', loc, val)
    /\ UNCHANGED frame_seen
    /\ n_ops' = n_ops + 1

\* update_timers(clock_count)
UpdateTimers(clock_count) ==
    /\ ~panicked
    /\ Becomes(MemBus_update_timers(Bus, clock_count))
    /\ audio_pipe' = MemBus_update_timers_pipe(audio_pipe, clock_count)
    /\ pipe_seen' = PipeSeenSent(pipe_seen, UpdateMessage(clock_count))
    /\ last_op' = Op("update_timers", 0, clock_count)
    /\ last_written' = [last_written EXCEPT !.pending = NoVal]
    /\ UNCHANGED <<ram_written, frame_seen>>
    /\ n_ops' = n_ops + 1

\* video_mode(cycle_count)
VideoMode(cycle_count) ==
    /\ ~panicked
    /\ Becomes(MemBus_video_mode(Bus, cycle_count))
    /\ UNCHANGED pipe_vars
    /\ last_op' = Op("video_mode", 0, cycle_count)
    /\ last_written' = [last_written EXCEPT !.pending = NoVal]
    /\ frame_seen' = FrameSeenAfter(frame_seen, Bus, cycle_count)
    /\ UNCHANGED ram_written
    /\ n_ops' = n_ops + 1

\* inc_lcdc_y()
IncLcdcY ==
    /\ ~panicked
    /\ \/ /\ video_device' = GBVideo_inc_lcdc_y(video_device)
          /\ UNCHANGED panicked
       \/ /\ GBVideo_inc_lcdc_y_overflows(video_device)
          /\ panicked' = TRUE
          /\ UNCHANGED video_device
    /\ last_op' = Op("inc_lcdc_y", 0, 0)
    /\ UNCHANGED <<rom_image, cart, ram, high_ram, interrupt_flag, interrupt_enable,
                   audio_device, timer, ppu, last_written, ram_written, frame_seen,
                   video_mem, target, ext_vars, pipe_vars>>
    /\ n_ops' = n_ops + 1

\* set_lcdc_y(val)
SetLcdcY(val) ==
    /\ ~panicked
    /\ video_device' = GBVideo_set_lcdc_y(video_device, val)
    /\ last_op' = Op("set_lcdc_y", 0, val)
    /\ UNCHANGED <<rom_image, cart, ram, high_ram, interrupt_flag, interrupt_enable,
                   audio_device, timer, ppu, panicked, last_written, ram_written,
                   frame_seen, video_mem, target, ext_vars, pipe_vars>>
    /\ n_ops' = n_ops + 1

\* clear_interrupt_flag(flag)
ClearInterruptFlag(flag) ==
    /\ ~panicked
    /\ Becomes(MemBus_clear_interrupt_flag(Bus, flag))
    /\ UNCHANGED pipe_vars
    /\ last_op' = Op("clear_interrupt_flag", 0, flag)
    /\ last_written' = [last_written EXCEPT !.pending = NoVal]
    /\ UNCHANGED <<ram_written, frame_seen>>
    /\ n_ops' = n_ops + 1

\* A write that reaches the renderer's video memory
DrawWrite(loc, val) ==
    /\ ~panicked
    /\ video_mem' = VideoMem_write(video_mem, loc, val)
    /\ last_op' = Op("write", loc, val)
    /\ UNCHANGED <<rom_image, cart, ram, high_ram, interrupt_flag, interrupt_enable,
                   video_device, audio_device, timer, ppu, panicked, last_written,
                   ram_written, frame_seen, target, ext_vars,
                   pipe_vars>>
    /\ n_ops' = n_ops + 1

\* draw_line_gb(target)
DrawLine ==
    /\ ~panicked
    /\ \E r \in {VideoMem_draw_line_gb(video_mem)} :
          /\ video_mem' = r.vm
          /\ target' = r.target
    /\ last_op' = Op("draw_line_gb", 0, video_mem.lcdc_y)
    /\ UNCHANGED <<rom_image, cart, ram, high_ram, interrupt_flag, interrupt_enable,
                   video_device, audio_device, timer, ppu, panicked, last_written,
                   ram_written, frame_seen, ext_vars, pipe_vars>>
    /\ n_ops' = n_ops + 1

\* set_pixel_lower_row(loc, row)
SetPixelLowerRow(loc, row) ==
    /\ ~panicked
    /\ IF TileAtlas_row_in_range(tile_atlas, loc)
       THEN /\ tile_atlas' = TileAtlas_set_pixel_lower_row(tile_atlas, loc, row)
            /\ atlas_seen' = AtlasSeenLower(atlas_seen, loc, row)
            /\ UNCHANGED panicked
       ELSE /\ panicked' = TRUE
            /\ UNCHANGED <<tile_atlas, atlas_seen>>
    /\ last_op' = Op("set_pixel_lower_row", loc, row)
    /\ UNCHANGED <<bus_vars, history_vars, draw_vars, square_vars, pipe_vars>>
    /\ n_ops' = n_ops + 1

\* set_pixel_upper_row(loc, row)
SetPixelUpperRow(loc, row) ==
    /\ ~panicked
    /\ IF TileAtlas_row_in_range(tile_atlas, loc)
       THEN /\ tile_atlas' = TileAtlas_set_pixel_upper_row(tile_atlas, loc, row)
            /\ atlas_seen' = AtlasSeenUpper(atlas_seen, loc, row)
            /\ UNCHANGED panicked
       ELSE /\ panicked' = TRUE
            /\ UNCHANGED <<tile_atlas, atlas_seen>>
    /\ last_op' = Op("set_pixel_upper_row", loc, row)
    /\ UNCHANGED <<bus_vars, history_vars, draw_vars, square_vars, pipe_vars>>
    /\ n_ops' = n_ops + 1

\* ref_data()
RefData ==
    /\ ~panicked
    /\ tile_atlas' = TileAtlas_ref_data(tile_atlas).t
    /\ atlas_seen' = [atlas_seen EXCEPT !.data = TileAtlas_ref_data(tile_atlas).data,
                                        !.refs = 1]
    /\ last_op' = Op("ref_data", 0, 0)
    /\ UNCHANGED <<bus_vars, history_vars, draw_vars, square_vars, pipe_vars, panicked>>
    /\ n_ops' = n_ops + 1

\* write_nrx0 .. write_nrx4 of square channel 1
WriteNrx(x, val) ==
    /\ ~panicked
    /\ square1' = [square1 EXCEPT !.regs = Square1Regs_write_nrx(@, x, val)]
    /\ square1_seen' = [square1_seen EXCEPT
                          !.armed = IF x = 4 THEN BitAnd(val, \h80) # 0 ELSE @]
    /\ last_op' = Op("write_nrx", x, val)
    /\ UNCHANGED <<bus_vars, history_vars, draw_vars, atlas_vars, pipe_vars, panicked>>
    /\ n_ops' = n_ops + 1

\* The channel's update: triggered(), and init_signal when it returns true
Triggered ==
    /\ ~panicked
    /\ \E t \in {Square1Regs_triggered(square1.regs)} :
          /\ square1' = [square1 EXCEPT
                           !.regs = t.regs,
                           !.gen = IF t.ret THEN Square1Gen_init_signal(@, t.regs) ELSE @]
          /\ square1_seen' = [square1_seen EXCEPT
                                !.armed = FALSE,
                                !.ret = t.ret,
                                !.regs = IF t.ret THEN t.regs ELSE @,
                                !.n = IF t.ret THEN 0 ELSE @]
          /\ last_op' = Op("triggered", 0, IF t.ret THEN 1 ELSE 0)
    /\ UNCHANGED <<bus_vars, history_vars, draw_vars, atlas_vars, pipe_vars, panicked>>
    /\ n_ops' = n_ops + 1

\* generate_signal(buffer, start, end), start and end in eighths
GenerateSignal(start, end) ==
    /\ ~panicked
    /\ \E r \in {Square1Gen_generate_signal(square1.gen, square1.buffer, start, end)} :
       \E skip \in {Square1Gen_slice_index(BufferLen, start)} :
       \E take \in {IF Square1Gen_slice_index(BufferLen, end) < BufferLen
                    THEN Square1Gen_slice_index(BufferLen, end) ELSE BufferLen} :
          /\ square1' = [square1 EXCEPT !.gen = r.gen, !.buffer = r.buffer]
          /\ panicked' = r.panic
          /\ square1_seen' = [square1_seen EXCEPT
                                !.n = IF @ = NoVal \/ take < skip THEN @
                                      ELSE @ + (take - skip),
                                !.skip = skip,
                                !.take = take,
                                !.before = square1.buffer]
    /\ last_op' = Op("generate_signal", start, end)
    /\ UNCHANGED <<bus_vars, history_vars, draw_vars, atlas_vars, pipe_vars>>
    /\ n_ops' = n_ops + 1

\* render_frame(): the frame boundary to the audio thread, then the video
\* unit's render_frame, which draws and leaves the bus as it is
RenderFrame ==
    /\ ~panicked
    /\ audio_pipe' = MemBus_render_frame_pipe(audio_pipe)
    /\ pipe_seen' = PipeSeenSent(pipe_seen, FrameMessage)
    /\ last_op' = Op("render_frame", 0, 0)
    /\ UNCHANGED <<bus_vars, history_vars, draw_vars, ext_vars, panicked>>
    /\ n_ops' = n_ops + 1

\* The audio thread: recv() of the next message of the channel
AudioRecv ==
    /\ audio_pipe # << >>
    /\ audio_pipe' = Tail(audio_pipe)
    /\ pipe_seen' = PipeSeenReceived(pipe_seen, Head(audio_pipe))
    /\ UNCHANGED <<bus_vars, history_vars, draw_vars, ext_vars, panicked, last_op, n_ops>>

-----------------------------------------------------------------------------
(* The bus specification: a small cartridge, writes across the address map. *)

BusRomImages ==
    { [len |-> \h8000, mbc |-> \h01, ramsz |-> \h02, seed |-> 1] }

\* The (address, byte) pairs written
BusWrites ==
    ({\hC000, \hDDFF, \hDFFF} \X {\hAB})
    \cup ({\hE000, \hFDFF} \X {\h5C})
    \cup ({\hFF0F} \X {\h01, \hE5, \hFF})
    \cup ({\hFFFF} \X {\h1F, \hE3})
    \cup ({\hFF46} \X {\hC0})
    \cup ({\hFEA0, \hFF7F} \X {\hAB})
    \cup ({\hFF80, \hFE00, \h8000, \hFF10, \hFF42} \X {\hAB})
    \cup ({\hFE9F} \X {\h5C})
    \cup {<<\hFF07, \h05>>, <<\hFF05, \hFF>>}
    \cup {<<\h0000, \h0A>>, <<\hA000, \hAB>>}

InitBus == InitWith(BusRomImages)

BusWriteStep == \E w \in BusWrites : n_ops < MaxBusOps /\ Write(w[1], w[2])
BusUpdateTimersStep == \E clock_count \in {4, 16} : n_ops < MaxBusOps /\ UpdateTimers(clock_count)
BusVideoModeStep == \E cycle_count \in {80, V_BLANK_LINE * LINE_CYCLES} : n_ops < MaxBusOps /\ VideoMode(cycle_count)
BusClearStep == \E flag \in {V_BLANK, TIMER} : n_ops < MaxBusOps /\ ClearInterruptFlag(flag)

NextBus ==
    \/ BusWriteStep
    \/ BusUpdateTimersStep
    \/ BusVideoModeStep
    \/ BusClearStep

SpecBus == InitBus /\ [][NextBus]_vars

-----------------------------------------------------------------------------
(* The cartridge specification: every controller, MBC command writes and   *)
(* cartridge RAM writes.                                                   *)

CartRomImages ==
    { [len |-> \h8000,   mbc |-> \h00, ramsz |-> \h00, seed |-> 1],
      [len |-> \h100000, mbc |-> \h01, ramsz |-> \h03, seed |-> 1],
      [len |-> \h9000,   mbc |-> \h03, ramsz |-> \h02, seed |-> 2],
      [len |-> \h40000,  mbc |-> \h05, ramsz |-> \h00, seed |-> 1],
      [len |-> \h100000, mbc |-> \h10, ramsz |-> \h03, seed |-> 1],
      [len |-> \h100000, mbc |-> \h19, ramsz |-> \h02, seed |-> 1],
      [len |-> \h8000,   mbc |-> \h15, ramsz |-> \h01, seed |-> 2],
      [len |-> \h8000,   mbc |-> \hFF, ramsz |-> \h00, seed |-> 3] }

\* The (address, byte) pairs written
CartWrites ==
    ({\h0000} \X {\h00, \h0A, \h0B})
    \cup ({\h1FFF} \X {\h0A})
    \cup ({\h2000} \X {\h00, \h02, \h20})
    \cup ({\h3FFF} \X {\h82})
    \cup ({\h4000} \X {\h00, \h01, \h02, \h03, \h08})
    \cup ({\h6000} \X {\h00, \h01})
    \cup ({\hA000} \X {\hAB})
    \cup ({\hBFFF} \X {\h5C})

InitCart == InitWith(CartRomImages)

CartWriteStep == \E w \in CartWrites : n_ops < MaxCartOps /\ Write(w[1], w[2])

NextCart == CartWriteStep

SpecCart == InitCart /\ [][NextCart]_vars

-----------------------------------------------------------------------------
(* The DMA specification: a write that prepares a source, then transfers   *)
(* from every kind of source page.                                         *)

DmaRomImages ==
    { [len |-> \h8000, mbc |-> \h01, ramsz |-> \h02, seed |-> 1] }

\* The source pages X written to 0xFF46: ROM bank 0, the switchable ROM bank,
\* video RAM, cartridge RAM, work RAM, the end of work RAM, its mirror, OAM
\* itself and the I/O page
DmaPages == {\h00, \h40, \h80, \hA0, \hC0, \hDF, \hFD, \hFE, \hFF}

\* The (address, byte) pairs written
DmaWrites ==
    ({\hFF46} \X DmaPages)
    \cup ({\hC000, \hC09F, \hC0A0, \hDF00} \X {\hAB})
    \cup ({\hFD01, \hFE00, \hFE9F, \hFF80, \hFF10, \hFF42, \h8000} \X {\h5C})
    \cup {<<\hFF0F, \hFF>>, <<\hFF05, \hFF>>, <<\h0000, \h0A>>, <<\hA000, \hAB>>,
          <<\h2000, \h02>>}

InitDma == InitWith(DmaRomImages)

DmaWriteStep == \E w \in DmaWrites : n_ops < MaxDmaOps /\ Write(w[1], w[2])

NextDma == DmaWriteStep

SpecDma == InitDma /\ [][NextDma]_vars

-----------------------------------------------------------------------------
(* The video register specification: register writes interleaved with     *)
(* inc_lcdc_y and set_lcdc_y.                                              *)

\* The (address, byte) pairs written
VideoWrites ==
    ({\hFF44} \X {\h00, \h99})
    \cup ({\hFF45, \hFF42} \X {\h90})
    \cup ({\hFF40} \X {\h00, \h91, \h6E})
    \cup ({\hFF41} \X {\h48})

\* Lines given to set_lcdc_y
VideoLines == {0, V_BLANK_LINE - 1, V_BLANK_LINE, LAST_LINE}

InitVideo == InitWith(BusRomImages)

VideoWriteStep == \E w \in VideoWrites : n_ops < MaxVideoOps /\ Write(w[1], w[2])
VideoIncStep == n_ops < MaxVideoOps /\ IncLcdcY
VideoSetStep == \E val \in VideoLines : n_ops < MaxVideoOps /\ SetLcdcY(val)

NextVideo ==
    \/ VideoWriteStep
    \/ VideoIncStep
    \/ VideoSetStep

SpecVideo == InitVideo /\ [][NextVideo]_vars

-----------------------------------------------------------------------------
(* The frame specification: cycles fed to video_mode in steps of several   *)
(* sizes, up to MaxFrames frames, with STAT and LYC written in between.    *)

\* The cycle counts of one call
PpuSteps == {12, LINE_CYCLES, 10 * LINE_CYCLES - 12, FRAME_CYCLES \div 2,
             V_BLANK_LINE * LINE_CYCLES, FRAME_CYCLES}

\* The (address, byte) pairs written
PpuWrites == {<<\hFF41, \h48>>, <<\hFF45, \h90>>}

InitPpu == InitWith(BusRomImages)

PpuVideoModeStep ==
    \E cycle_count \in PpuSteps :
        /\ n_ops < MaxPpuOps
        /\ frame_seen.cycles + cycle_count <= MaxFrames * FRAME_CYCLES
        /\ VideoMode(cycle_count)

PpuWriteStep ==
    \E w \in PpuWrites :
        /\ n_ops < MaxPpuOps
        /\ Write(w[1], w[2])

NextPpu ==
    \/ PpuVideoModeStep
    \/ PpuWriteStep

SpecPpu == InitPpu /\ [][NextPpu]_vars

-----------------------------------------------------------------------------
(* The renderer specification: video memory a program has set up (tiles,    *)
(* both tile maps, two sprites, palettes), register and VRAM writes, and    *)
(* draw_line_gb.                                                            *)

\* Tile 1 has texel 3 at (7, 7) and 0 elsewhere; tile 2 has texel 1 in the
\* first four columns of row 0 and 0 elsewhere; tile 0 is blank
DrawTileMem == (30 :> \h01) @@ (31 :> \h01) @@ (32 :> \hF0)

DrawTileMap0 == (0 :> 1) @@ (8 :> 1) @@ (12 :> 1) @@ (32 :> 1)
DrawTileMap1 == (1 :> 1) @@ (5 :> 1) @@ (9 :> 1)

\* An object above the background over columns 0..7 and one behind it over
\* columns 8..15, both with their first row on line 0
DrawObjects ==
    << [y |-> 8, x |-> 8,  tile_num |-> 2, flags |-> \h00],
       [y |-> 8, x |-> 16, tile_num |-> 2, flags |-> \h80] >>

DrawScenes ==
    { [VideoMem_new EXCEPT !.lcd_control = \h91,
                           !.lcdc_y = y,
                           !.bg_palette = \hE4,
                           !.obj_palette_0 = \h1B,
                           !.tile_mem = DrawTileMem,
                           !.tile_map_0 = DrawTileMap0,
                           !.tile_map_1 = DrawTileMap1,
                           !.object_mem = DrawObjects] : y \in {0, 1} }

\* The (address, byte) pairs written
DrawWrites ==
    ({\hFF40} \X {\hF1, \hB1, \h90})
    \cup ({\hFF4B} \X {\h07})
    \cup ({\hFF4A} \X {\h01})
    \cup ({\hFF43} \X {\h01})
    \cup ({\hFF47} \X {\h1B})
    \cup ({\h9800, \h9C01} \X {\h00})
    \cup ({\h801F} \X {\h00})

InitDraw ==
    /\ InitBusWith(BusRomImages)
    /\ video_mem \in DrawScenes
    /\ target = NoLine
    /\ InitExt

DrawWriteStep == \E w \in DrawWrites : n_ops < MaxDrawOps /\ DrawWrite(w[1], w[2])
DrawLineStep == n_ops < MaxDrawOps /\ DrawLine

NextDraw ==
    \/ DrawWriteStep
    \/ DrawLineStep

SpecDraw == InitDraw /\ [][NextDraw]_vars

-----------------------------------------------------------------------------
(* The atlas specification: an atlas of one tile, rows set at aligned,      *)
(* overlapping and out-of-range locations, and ref_data.                    *)

AtlasLocs == {0, 4, 60}
AtlasRows == {\hA5, \h3C}

InitAtlas == InitWith(BusRomImages)

AtlasLowerStep ==
    \E loc \in AtlasLocs : \E row \in AtlasRows :
        n_ops < MaxAtlasOps /\ SetPixelLowerRow(loc, row)
AtlasUpperStep ==
    \E loc \in AtlasLocs : \E row \in AtlasRows :
        n_ops < MaxAtlasOps /\ SetPixelUpperRow(loc, row)
AtlasRefDataStep == n_ops < MaxAtlasOps /\ RefData

NextAtlas ==
    \/ AtlasLowerStep
    \/ AtlasUpperStep
    \/ AtlasRefDataStep

SpecAtlas == InitAtlas /\ [][NextAtlas]_vars

-----------------------------------------------------------------------------
(* The square channel specification: register images a program has written, *)
(* register writes, the channel's update and generate_signal over slices    *)
(* of the buffer.                                                           *)

\* NR10..NR14 as a program leaves them before the channel's update
Square1Image(nr10, nr11, nr12, nr13, nr14) ==
    [sweep_reg |-> nr10, duty_length_reg |-> nr11, vol_envelope_reg |-> nr12,
     freq_lo_reg |-> nr13, freq_hi_reg |-> nr14]

Square1Images ==
    { Square1Regs_new,
      Square1Image(\h00, \h80, \hD9, \h00, \h80),   \* envelope up from 13, step 1
      Square1Image(\h00, \h80, \h31, \h00, \h80),   \* envelope down from 3, step 1
      Square1Image(\h00, \h80, \hF0, \h00, \h84),   \* envelope off, 128 Hz
      Square1Image(\h00, \hBC, \hF0, \h00, \hC0),   \* length of 4 samples
      Square1Image(\h11, \h80, \hF0, \h00, \h80),   \* sweep step 2, shift 1, NR12 bit 3 clear
      Square1Image(\h11, \h80, \hF8, \h00, \h80),   \* the same with NR12 bit 3 set
      Square1Image(\h00, \h80, \hF0, \h00, \h87) }  \* 512 Hz: above the sample rate

SquareWrites ==
    { <<0, \h19>>, <<1, \hBE>>, <<2, \h59>>, <<3, \h80>>, <<4, \hC0>>, <<4, \h00>> }

\* start and end of a slice, in eighths of the buffer
SquareSlices ==
    { <<0, 8>>, <<0, 3>>, <<3, 8>>, <<5, 2>>, <<4, 9>> }

InitSquare ==
    /\ InitBusWith(BusRomImages)
    /\ video_mem = VideoMem_new
    /\ target = NoLine
    /\ InitAtlasVars
    /\ \E regs \in Square1Images : InitSquareVars(regs)
    /\ InitPipeVars

SquareWriteStep ==
    \E w \in SquareWrites : n_ops < MaxSquareOps /\ WriteNrx(w[1], w[2])
SquareTriggeredStep == n_ops < MaxSquareOps /\ Triggered
SquareGenerateStep ==
    \E s \in SquareSlices : n_ops < MaxSquareOps /\ GenerateSignal(s[1], s[2])

NextSquare ==
    \/ SquareWriteStep
    \/ SquareTriggeredStep
    \/ SquareGenerateStep

SpecSquare == InitSquare /\ [][NextSquare]_vars

-----------------------------------------------------------------------------
(* The audio pipe specification: the frame loop calling update_timers and   *)
(* render_frame on the emulator thread, the audio thread receiving.         *)

PipeClockCounts == {4, 12}

InitPipe == InitWith(BusRomImages)

PipeUpdateTimersStep ==
    \E clock_count \in PipeClockCounts : n_ops < MaxPipeOps /\ UpdateTimers(clock_count)
PipeRenderFrameStep == n_ops < MaxPipeOps /\ RenderFrame
PipeAudioRecvStep == AudioRecv

NextPipe ==
    \/ PipeUpdateTimersStep
    \/ PipeRenderFrameStep
    \/ PipeAudioRecvStep

SpecPipe == InitPipe /\ [][NextPipe]_vars

-----------------------------------------------------------------------------
(* Properties of the bus (SpecBus).                                         *)

\* The step just taken applied an operation
Stepped == n_ops' = n_ops + 1

\* Addresses of 0xC000..0xDDFF probed: the ends of the range, a cell next to
\* a written one, and every cell that holds a non-zero byte
C1_Probes ==
    {\hC000, \hC001, \hDDFE, \hDDFF}
    \cup {\hC000 + o : o \in {x \in DOMAIN ram.mem : x < \h1E00}}

\* C1: for every address L in 0xC000..0xDDFF, read(L) and read(L + 0x2000)
\* return the same byte: the range 0xE000..0xFDFF mirrors work RAM, whichever
\* of the two ranges the bytes were written through.
C1_WramMirror ==
    \A L \in C1_Probes : MemBus_read(Bus, L) = MemBus_read(Bus, L + \h2000)

\* C1 witness: a byte written at 0xC000 and another written through the
\* mirror at 0xFDFF are both read back from the other range
C1_Witness ==
    /\ MemBus_read(Bus, \hE000) = \hAB
    /\ MemBus_read(Bus, \hDDFF) = \h5C
    /\ last_op.op = "write" /\ last_op.loc \in {\hC000, \hFDFF}

\* C2: when IF (0xFF0F) and IE (0xFFFF) were both written and no
\* update_timers, video_mode or clear_interrupt_flag came after the write of
\* IF, get_interrupts returns, bit by bit, (IF & IE & 0x1F) of the bytes last
\* written: bits 5..7 of either byte are never seen.
C2_InterruptsOfLastWritten ==
    (last_written.pending # NoVal /\ last_written.enabled # NoVal)
    => \A n \in 0..7 :
          Bit(MemBus_get_interrupts(Bus), n)
            = IF /\ n <= 4
                 /\ Bit(last_written.pending, n) = 1
                 /\ Bit(last_written.enabled, n) = 1
              THEN 1 ELSE 0

\* C2 witness: 0xE5 written to IF and 0xE3 to IE (bits 5..7 set in both);
\* get_interrupts is 0x01
C2_Witness ==
    /\ last_written.pending = \hE5
    /\ last_written.enabled = \hE3
    /\ MemBus_get_interrupts(Bus) = \h01

\* C3: clear_interrupt_flag(f) removes from the pending set exactly the bits
\* of f: a bit of f is clear afterwards, every other bit is as before, the
\* enable mask is untouched.  With all five sources enabled and V_BLANK alone
\* pending, get_interrupts is 0x01 before clear_interrupt_flag(V_BLANK) and
\* 0x00 after it.
C3_ClearRemovesExactlyFlag ==
    [][ (Stepped /\ last_op'.op = "clear_interrupt_flag")
        => /\ \A n \in 0..7 :
                Bit(interrupt_flag', n)
                  = IF Bit(last_op'.val, n) = 1 THEN 0 ELSE Bit(interrupt_flag, n)
           /\ interrupt_enable' = interrupt_enable
           /\ (interrupt_enable = \h1F /\ interrupt_flag = \h01 /\ last_op'.val = V_BLANK)
              => /\ MemBus_get_interrupts(Bus) = \h01
                 /\ MemBus_get_interrupts(Bus)' = \h00
      ]_vars

\* C3 witness: clear_interrupt_flag(V_BLANK) was applied with all sources
\* enabled and V_BLANK alone pending; nothing is pending now
C3_Witness ==
    /\ last_op = [op |-> "clear_interrupt_flag", loc |-> 0, val |-> V_BLANK, pending |-> \h01]
    /\ interrupt_enable = \h1F
    /\ MemBus_get_interrupts(Bus) = \h00

\* Addresses no arm of the bus decodes
C6_Undecoded == {\hFEA0, \hFEFF, \hFF01, \hFF02, \hFF08, \hFF0E, \hFF4C, \hFF7F}

\* C6: a read of an address that no device decodes (0xFEA0-0xFEFF,
\* 0xFF01-0xFF02, 0xFF08-0xFF0E, 0xFF4C-0xFF7F) returns 0.
C6_UndecodedReadsZero ==
    \A L \in C6_Undecoded : MemBus_read(Bus, L) = 0

\* A write to an undecoded address changes no state of the machine
C6_UndecodedWriteIgnored ==
    [][ (Stepped /\ last_op'.op = "write" /\ last_op'.loc \in C6_Undecoded)
        => Bus' = Bus ]_vars

-----------------------------------------------------------------------------
(* Properties of the DMA transfer (SpecDma).                                *)

\* C5: a write of X to 0xFF46 leaves, for every i in 0..0x9F, at 0xFE00 + i
\* the byte that read((X << 8) + i) returned just before the write, for every
\* source page X, the OAM page 0xFE and the I/O page 0xFF among them.
C5_DmaCopiesPage ==
    [][ (Stepped /\ last_op'.op = "write" /\ last_op'.loc = \hFF46 /\ ~panicked')
        => \A i \in \h0..\h9F :
              MemBus_read(Bus, \hFE00 + i)' = MemBus_read(Bus, last_op'.val * 256 + i)
      ]_vars

\* C5 witness: the transfer from page 0xC0 brought the bytes of 0xC000 and
\* 0xC09F to both ends of the sprite table
C5_Witness ==
    /\ last_op.op = "write" /\ last_op.loc = \hFF46 /\ last_op.val = \hC0
    /\ MemBus_read(Bus, \hC09F) = \hAB
    /\ MemBus_read(Bus, \hFE9F) = \hAB
    /\ MemBus_read(Bus, \hFE00) = MemBus_read(Bus, \hC000)

-----------------------------------------------------------------------------
(* Properties of the cartridge (SpecCart).                                  *)

\* The ROM bank swap_rom_bank last sought
ActiveRomBank == cart.rom_file.seek \div \h4000

\* Addresses of the switchable ROM page probed
C4_Probes == {\h4000, \h4FFF, \h5000, \h7FFF}

\* C4: with ROM bank n swapped in, read(L) for L in 0x4000..0x7FFF returns
\* the ROM file byte at n * 0x4000 + (L - 0x4000); where the file ends before
\* that offset, the byte returned is not one a bank resident earlier left in
\* the page.
C4_SwappedBankReadsItsBytes ==
    \A L \in C4_Probes :
        LET off == ActiveRomBank * \h4000 + (L - \h4000)
            k   == PageExtent(cart.rom_bank_n, L - \h4000)
        IN  IF off < rom_image.len
            THEN MemBus_read(Bus, L) = RomByte(rom_image, off)
            ELSE k = 0 \/ cart.rom_bank_n[k].pos = ActiveRomBank * \h4000

\* Addresses of ROM bank 0 probed
C7_Probes == {\h0000, \h0100, \h0147, \h0149, \h2000, \h3FFF}

\* C7: a write to 0x0000..0x7FFF is an MBC command, never a store: whatever
\* the cartridge type, after it read(L) for L in 0x0000..0x3FFF still returns
\* the ROM file byte at offset L, and the cartridge RAM holds what it held.
C7_CommandWritesStoreNothing ==
    [][ (Stepped /\ last_op'.op = "write" /\ last_op'.loc <= \h7FFF)
        => /\ \A L \in C7_Probes : MemBus_read(Bus, L)' = RomByte(rom_image, L)
           /\ cart'.ram = cart.ram
           /\ cart'.rom_bank_0 = cart.rom_bank_0
      ]_vars

\* C7 witness: a bank-select command was written to a cartridge whose RAM
\* holds a byte, and the bank was swapped
C7_Witness ==
    /\ last_op.op = "write" /\ last_op.loc = \h2000 /\ last_op.val = \h02
    /\ ActiveRomBank = 2
    /\ cart.ram # ZeroMem
    /\ MemBus_read(Bus, \h0000) = RomByte(rom_image, \h0000)

\* Addresses of the cartridge RAM window probed
C8_Probes == {\hA000, \hA001, \hBFFF}

\* While RAM is disabled every read of 0xA000..0xBFFF returns 0
C8_DisabledReadsZero ==
    ~cart.ram_enable => \A L \in C8_Probes : MemBus_read(Bus, L) = 0

\* A write to 0xA000..0xBFFF while RAM is disabled changes nothing of the
\* cartridge, its RAM and RTC registers included
C8_DisabledWriteIgnored ==
    (Stepped /\ last_op'.op = "write" /\ InRange(last_op'.loc, \hA000, \hBFFF)
        /\ ~cart.ram_enable)
    => cart' = cart

\* The byte write_ram stores for val
C8_Stored(val) == IF cart.mem_bank.kind = "_2" THEN val % 16 ELSE val

\* The last write that reached RAM or the RTC is addressed as it was then
C8_SameSelection ==
    /\ ram_written.loc # NoVal
    /\ cart.ram_enable
    /\ RamSelection(cart) = ram_written.sel

\* C8: while RAM is disabled, reads of 0xA000..0xBFFF return 0 and writes to
\* it change neither the RAM nor the RTC; a byte written while RAM was
\* enabled is read back, with RAM enabled and the same bank and register
\* selection, as it was stored (the byte written, on MBC2 its low 4 bits),
\* also after RAM was disabled and enabled again.
C8_RamEnableGate ==
    [][ /\ C8_DisabledWriteIgnored
        /\ C8_DisabledReadsZero'
        /\ (C8_SameSelection
            => MemBus_read(Bus, ram_written.loc) = C8_Stored(ram_written.val))'
      ]_vars

\* C8 as stated: the byte read back is the byte written
C8_RamEnableGateVerbatim ==
    [][ /\ C8_DisabledWriteIgnored
        /\ C8_DisabledReadsZero'
        /\ (C8_SameSelection => MemBus_read(Bus, ram_written.loc) = ram_written.val)'
      ]_vars

\* C8 witness: 0xAB was written while RAM was enabled, RAM was disabled and
\* enabled again, and the byte is read back
C8_Witness ==
    /\ ram_written.cycle = 2
    /\ ram_written.val = \hAB
    /\ C8_SameSelection
    /\ MemBus_read(Bus, ram_written.loc) = \hAB

\* C9: on an MBC1 cartridge a write of v to 0x0000..0x1FFF leaves RAM enabled
\* exactly when the low nibble of v is 0xA.
C9_Mbc1EnableIffLowNibbleA ==
    (cart.mem_bank.kind = "_1" /\ last_op.op = "write" /\ last_op.loc <= \h1FFF)
    => (cart.ram_enable <=> last_op.val % 16 = \hA)

\* The bank numbers MBC1 cannot select
C10_ZeroBanks == {\h00, \h20, \h40, \h60}

\* The bank the registers written select in ROM mode: 2 high bits, 5 low bits
C10_Combined ==
    (IF last_written.rom_hi = NoVal THEN 0 ELSE last_written.rom_hi % 4) * 32
    + (last_written.rom_lo % 32)

\* C10: on MBC1 the active switchable ROM bank is the one the registers
\* select and is never 0x00, 0x20, 0x40 or 0x60; in ROM mode a combined bank
\* number of 0x00 / 0x20 / 0x40 / 0x60 written to the registers gives bank
\* 0x01 / 0x21 / 0x41 / 0x61, every other number gives itself.
C10_Mbc1ZeroBankRemap ==
    cart.mem_bank.kind = "_1"
    => /\ ActiveRomBank \notin C10_ZeroBanks
       /\ ActiveRomBank = MB1_get_rom_bank(cart.mem_bank)
       /\ (last_written.rom_lo # NoVal /\ ~cart.mem_bank.ram_mode)
          => ActiveRomBank = IF C10_Combined \in C10_ZeroBanks
                             THEN C10_Combined + 1 ELSE C10_Combined

\* C10 witness: low register written 0x20, high register 0x01, ROM mode:
\* bank 0x21 is resident and read at 0x4000
C10_Witness ==
    /\ cart.mem_bank.kind = "_1"
    /\ last_written.rom_lo = \h20 /\ last_written.rom_hi = \h01
    /\ ~cart.mem_bank.ram_mode
    /\ ActiveRomBank = \h21
    /\ MemBus_read(Bus, \h4000) = RomByte(rom_image, \h21 * \h4000)

\* C11: on MBC3 a write of v to 0x2000..0x3FFF maps switchable bank
\* v AND 0x7F, 0 taken as 1: the bank mapped is in 1..0x7F and bit 7 of v
\* plays no part.
C11_Mbc3BankIs7Bit ==
    (cart.mem_bank.kind = "_3" /\ last_op.op = "write"
        /\ InRange(last_op.loc, \h2000, \h3FFF))
    => /\ ActiveRomBank = IF last_op.val % 128 = 0 THEN 1 ELSE last_op.val % 128
       /\ ActiveRomBank \in 1..\h7F

\* C12: on MBC3, with RAM enabled, what 0xA000..0xBFFF addresses follows
\* the last byte v written to 0x4000..0x5FFF: for v in 0..3 cartridge RAM at
\* offset v * 0x2000, also when an RTC register was selected before; for v
\* in 0x08..0x0C the RTC register v.
C12_Mbc3SelectionFollowsLastWrite ==
    (cart.mem_bank.kind = "_3" /\ cart.ram_enable /\ last_written.rom_hi # NoVal)
    => /\ last_written.rom_hi \in 0..3
          => MemBus_read(Bus, \hA000) = MemGet(cart.ram, last_written.rom_hi * \h2000)
       /\ last_written.rom_hi \in RtcRegs
          => MemBus_read(Bus, \hA000) = cart.mem_bank.rtc[last_written.rom_hi]

\* C13: on MBC5 (header byte 0x19..0x1E) a write of n to the low ROM-bank
\* register, the high register still 0, makes reads of 0x4000..0x7FFF return
\* the bytes of ROM bank n.
C13_Mbc5BankSwitch ==
    (cart.mem_bank.kind = "_5" /\ n_ops = 1 /\ last_op.op = "write"
        /\ last_op.loc = \h2000)
    => \A L \in C4_Probes :
          MemBus_read(Bus, L) = RomByte(rom_image, last_op.val * \h4000 + (L - \h4000))

\* Addresses of the 512 half-bytes of MBC2 RAM probed
C14_Probes == {\hA000, \hA001, \hA1FF}

KnownMbc == {\h00} \cup (\h1..\h3) \cup (\h5..\h6) \cup (\hF..\h13)
            \cup (\h15..\h17) \cup (\h19..\h1E)

\* C15: a ROM whose header byte 0x147 is no known cartridge type gives no
\* running machine: construction fails.
C15_UnknownMbcIsFatal ==
    rom_image.mbc \notin KnownMbc => panicked

\* Frames completed once c cycles were fed from the start of a frame: one
\* more each time line V_BLANK_LINE is entered
C16_FramesDue(c) ==
    (c + FRAME_CYCLES - V_BLANK_LINE * LINE_CYCLES) \div FRAME_CYCLES

\* C16: starting at LY = 0 in mode 2, however the cycles fed to video_mode
\* are cut into steps, every full 70,224 cycles bring the scanline counter
\* back to 0 in mode 2, video_mode has reported frame-complete exactly once
\* per frame, and V-BLANK was raised into pending exactly once per frame.
C16_FrameCycle ==
    /\ frame_seen.frames = C16_FramesDue(frame_seen.cycles)
    /\ frame_seen.v_blanks = frame_seen.frames
    /\ frame_seen.frames >= 1 => BitAnd(interrupt_flag, V_BLANK) = V_BLANK
    /\ frame_seen.frames = 0 => BitAnd(interrupt_flag, V_BLANK) = 0
    /\ \A k \in 1..MaxFrames :
          frame_seen.cycles = k * FRAME_CYCLES
          => /\ MemBus_read(Bus, \hFF44) = 0
             /\ ppu.mode = 2
             /\ ppu.cycles = 0
             /\ frame_seen.frames = k

\* C16 witness: a whole frame was fed in several steps, the last of 12
\* cycles, and the one frame and the one V-BLANK were seen
C16_Witness ==
    /\ frame_seen.cycles = FRAME_CYCLES
    /\ last_op.op = "video_mode" /\ last_op.val = 12
    /\ frame_seen.frames = 1
    /\ frame_seen.v_blanks = 1
    /\ MemBus_read(Bus, \hFF44) = 0
    /\ BitAnd(interrupt_flag, V_BLANK) = V_BLANK

\* C17: the scanline counter read at 0xFF44 is in 0..=153 in every state
\* reached by inc_lcdc_y, set_lcdc_y and register writes.
C17_LcdcYInRange ==
    MemBus_read(Bus, \hFF44) \in 0..LAST_LINE

\* The objects of the line last drawn, and its three pixels at column x
C18_Objects == VideoMem_ref_objects_for_line(video_mem, target.y)
C18_Sprite(x) == VideoMem_sprite_pixel(video_mem, C18_Objects, x, target.y)
C18_Window(x) == VideoMem_window_pixel(video_mem, x, target.y)
C18_Background(x) == VideoMem_background_pixel(video_mem, x, target.y)

\* The window pixel where there is one, else the background pixel
C18_WindowOrBg(x) ==
    IF C18_Window(x).kind # "absent" THEN C18_Window(x) ELSE C18_Background(x)

\* C18: every column of a line drawn by draw_line_gb holds the Hi sprite
\* colour if there is one; otherwise the NonZero window-or-background
\* colour; otherwise the Lo sprite colour; otherwise the Zero
\* window-or-background colour; where a window pixel exists the background
\* pixel is not used.
C18_PixelComposition ==
    last_op.op = "draw_line_gb"
    => /\ target.y = video_mem.lcdc_y
       /\ \A x \in 0..(SCREEN_WIDTH - 1) :
             target.line[x] =
                IF C18_Sprite(x).kind = "Hi" THEN C18_Sprite(x).c
                ELSE IF C18_WindowOrBg(x).kind = "NonZero" THEN C18_WindowOrBg(x).c
                ELSE IF C18_Sprite(x).kind = "Lo" THEN C18_Sprite(x).c
                ELSE C18_WindowOrBg(x).c

\* Some column of the line has sprite pixel sp over window-or-background wb
C18_Case(sp, wb) ==
    \E x \in 0..(SCREEN_WIDTH - 1) :
        C18_Sprite(x).kind = sp /\ C18_WindowOrBg(x).kind = wb

\* C18 witness: a line was drawn with the window on that has all six
\* combinations of sprite and window pixel, the colours of the layers
\* differ, and at one column a Zero window pixel hides a NonZero background
C18_Witness ==
    /\ last_op.op = "draw_line_gb"
    /\ \A sp \in {"Hi", "Lo", "None"} : \A wb \in {"Zero", "NonZero"} : C18_Case(sp, wb)
    /\ \E x \in 0..(SCREEN_WIDTH - 1) :
          /\ C18_Sprite(x).kind = "Lo"
          /\ C18_Window(x).kind = "NonZero"
          /\ C18_Sprite(x).c # C18_Window(x).c
          /\ target.line[x] = C18_Window(x).c
    /\ \E x \in 0..(SCREEN_WIDTH - 1) :
          /\ C18_Sprite(x).kind = "None"
          /\ C18_Window(x).kind = "Zero"
          /\ C18_Background(x).kind = "NonZero"
          /\ C18_Background(x).c # C18_Window(x).c
          /\ target.line[x] = C18_Window(x).c

\* The class and colour of texel t of the window or background
C19_Classified(t) ==
    IF t = 0
    THEN BGPixel_Zero(VideoMem_get_bg_colour(video_mem, t))
    ELSE BGPixel_NonZero(VideoMem_get_bg_colour(video_mem, t))

\* C19: at every column x of line y a window pixel is produced exactly when
\* the window is enabled and x >= WX - 7 and y >= WY, and it is then the
\* texel at (x - (WX - 7), y - WY) of the window map.
C19_WindowPixelWhere ==
    \A x \in 0..(SCREEN_WIDTH - 1) :
        LET y == video_mem.lcdc_y
            px == VideoMem_window_pixel(video_mem, x, y)
            due == /\ VideoMem_get_window_enable(video_mem)
                   /\ x >= video_mem.window_x - 7
                   /\ y >= video_mem.window_y
        IN  /\ px.kind # "absent" <=> due
            /\ due => px = C19_Classified(
                              MapCache_at(VideoMem_ref_window(video_mem),
                                          y - video_mem.window_y,
                                          x - (video_mem.window_x - 7)))

\* Pixel coordinates probed in the 256 x 256 tile space
C20_Probes == {0, 1, 7, 8, 9, 15, 64, 255}

\* The cache holds, at every probed pixel, the texel of the tile the map
\* names for it
C20_Consistent(cache, tile_map) ==
    \A px \in C20_Probes : \A py \in C20_Probes :
        MapCache_at(cache, py, px)
          = Tile_get_texel(video_mem,
                           MemGet(tile_map, (py \div 8) * 32 + (px \div 8)),
                           px % 8, py % 8)

\* C20: after draw_line_gb both map caches hold, at every pixel (px, py),
\* texel (px mod 8, py mod 8) of the tile at map entry
\* (py div 8) * 32 + (px div 8); and a cache whose dirty flag is clear
\* always does.
C20_MapCacheConsistent ==
    /\ last_op.op = "draw_line_gb"
       => /\ C20_Consistent(video_mem.map_cache_0, video_mem.tile_map_0)
          /\ C20_Consistent(video_mem.map_cache_1, video_mem.tile_map_1)
    /\ ~video_mem.map_cache_0_dirty
       => C20_Consistent(video_mem.map_cache_0, video_mem.tile_map_0)
    /\ ~video_mem.map_cache_1_dirty
       => C20_Consistent(video_mem.map_cache_1, video_mem.tile_map_1)

\* Texel o of the atlas, and the locations whose planes are read back
C21_Texel(t, o) == MemGet(t.atlas.mem, o)
C21_Probes == {0, 4, 8, 56}

\* The step set one plane of the row at loc: bit 7 - i of row is that plane
\* of texel loc + i, the other plane of every texel and every texel outside
\* loc..loc+7 are as before, and the plane reads back as row
C21_PlaneSet(loc, row, plane) ==
    /\ \A i \in 0..7 :
          C21_Texel(tile_atlas', loc + i) =
             IF plane = 0
             THEN 2 * (C21_Texel(tile_atlas, loc + i) \div 2) + Bit(row, 7 - i)
             ELSE 2 * Bit(row, 7 - i) + (C21_Texel(tile_atlas, loc + i) % 2)
    /\ \A o \in (0..(tile_atlas.atlas.size - 1)) \ (loc..(loc + 7)) :
          C21_Texel(tile_atlas', o) = C21_Texel(tile_atlas, o)
    /\ IF plane = 0
       THEN /\ TileAtlas_get_pixel_lower_row(tile_atlas', loc) = row
            /\ \A l \in C21_Probes :
                  TileAtlas_get_pixel_upper_row(tile_atlas', l)
                    = TileAtlas_get_pixel_upper_row(tile_atlas, l)
       ELSE /\ TileAtlas_get_pixel_upper_row(tile_atlas', loc) = row
            /\ \A l \in C21_Probes :
                  TileAtlas_get_pixel_lower_row(tile_atlas', l)
                    = TileAtlas_get_pixel_lower_row(tile_atlas, l)

\* Both planes of the row at atlas_seen.loc were set, lower a and upper b:
\* texel i is 2 * bit(7-i of b) + bit(7-i of a) and the planes read back
C21_BothPlanes ==
    (atlas_seen.lower # NoVal /\ atlas_seen.upper # NoVal)
    => /\ \A i \in 0..7 :
             C21_Texel(tile_atlas, atlas_seen.loc + i)
               = 2 * Bit(atlas_seen.upper, 7 - i) + Bit(atlas_seen.lower, 7 - i)
       /\ TileAtlas_get_pixel_lower_row(tile_atlas, atlas_seen.loc) = atlas_seen.lower
       /\ TileAtlas_get_pixel_upper_row(tile_atlas, atlas_seen.loc) = atlas_seen.upper

\* C21: after set_pixel_lower_row(loc, a) and set_pixel_upper_row(loc, b) in
\* either order texel i of the row is 2 * bit(7-i of b) + bit(7-i of a),
\* get_pixel_lower_row(loc) returns a and get_pixel_upper_row(loc) returns
\* b; setting one plane changes neither the other plane nor a texel outside
\* loc..loc+7.
C21_TilePlanes ==
    [][ ~panicked'
        => /\ last_op'.op = "set_pixel_lower_row"
              => C21_PlaneSet(last_op'.loc, last_op'.val, 0)
           /\ last_op'.op = "set_pixel_upper_row"
              => C21_PlaneSet(last_op'.loc, last_op'.val, 1)
           /\ C21_BothPlanes' ]_vars

\* C21 witness: at the unaligned loc 4 the upper plane 0x3C was set, then
\* the lower plane 0xA5, over texels another row had written, and both read
\* back
C21_Witness ==
    /\ last_op.op = "set_pixel_lower_row"
    /\ atlas_seen.loc = 4 /\ atlas_seen.lower = \hA5 /\ atlas_seen.upper = \h3C
    /\ TileAtlas_get_pixel_lower_row(tile_atlas, 4) = \hA5
    /\ TileAtlas_get_pixel_upper_row(tile_atlas, 4) = \h3C
    /\ C21_Texel(tile_atlas, 0) # 0
    /\ C21_Texel(tile_atlas, 4) = 1 /\ C21_Texel(tile_atlas, 6) = 3

Init == InitBus
Next == NextBus
Spec == SpecBus

-----------------------------------------------------------------------------
(* Properties of square channel 1 (SpecSquare).                             *)

\* The step is a call of operation name
C22_Calls(name) == n_ops' # n_ops /\ last_op'.op = name

\* C22: a call of triggered() returns true exactly when a write of NRx4 has
\* set bit 7 since the last call; it then clears bit 7 of NRx4 and leaves
\* bits 0-6 and the other four registers as they are; when it returns false
\* it changes no register.
C22_TriggerSelfClearing ==
    [][C22_Calls("triggered") =>
          /\ (last_op'.val = 1) = square1_seen.armed
          /\ (last_op'.val = 1) = (BitAnd(square1.regs.freq_hi_reg, \h80) # 0)
          /\ square1'.regs.freq_hi_reg = square1.regs.freq_hi_reg % 128
          /\ \A f \in {"sweep_reg", "duty_length_reg", "vol_envelope_reg", "freq_lo_reg"} :
                square1'.regs[f] = square1.regs[f]
          /\ last_op'.val = 0 => square1'.regs = square1.regs]_vars

\* A second call of triggered() after a trigger returned false, bits 0-6 of
\* NRx4 still holding what was written
C22_Witness ==
    /\ last_op.op = "triggered"
    /\ last_op.val = 0
    /\ square1_seen.n # NoVal
    /\ square1.regs.freq_hi_reg = \h04

\* The envelope of the last trigger: its step in samples, its initial volume
\* and whether NRx2 bit 3 asks for an increase
C23_Step == (SampleRate * BitAnd(square1_seen.regs.vol_envelope_reg, \h7)) \div 64
C23_Volume == BitAnd(square1_seen.regs.vol_envelope_reg, \hF0) \div 16
C23_Increase == BitAnd(square1_seen.regs.vol_envelope_reg, \h8) # 0

\* The amplitude the claim gives sample j after the trigger
C23_AmplitudeAt(j) ==
    IF C23_Step = 0 THEN C23_Volume
    ELSE IF C23_Increase
    THEN (IF C23_Volume + (j \div C23_Step) < 15 THEN C23_Volume + (j \div C23_Step) ELSE 15)
    ELSE (IF C23_Volume - (j \div C23_Step) > 0 THEN C23_Volume - (j \div C23_Step) ELSE 0)

\* The samples of the last call of generate_signal: buffer index i holds
\* sample C23_SampleNo(i) after the trigger
C23_Written == {i \in 0..(BufferLen - 1) : square1_seen.skip <= i /\ i < square1_seen.take}
C23_SampleNo(i) == square1_seen.n - square1_seen.take + i

\* C23: the amplitude is always in 0..15; n samples after a trigger with
\* envelope step k >= 1 and direction increase it is the initial volume plus
\* n div k, capped at 15 (so it never falls, rises by one every k samples and
\* holds 15 from sample 15k at the latest); with step 0 it stays the initial
\* volume; every sample written is 0 or the amplitude of its position.
C23_Envelope ==
    /\ square1.gen.amplitude \in 0..15
    /\ (square1_seen.n # NoVal /\ ~panicked) =>
          /\ (C23_Step = 0 \/ C23_Increase) =>
                square1.gen.amplitude = C23_AmplitudeAt(square1_seen.n)
          /\ (last_op.op = "generate_signal" /\ (C23_Step = 0 \/ C23_Increase)) =>
                \A i \in C23_Written :
                    square1.buffer[i + 1] \in {0, C23_AmplitudeAt(C23_SampleNo(i))}

\* Sixteen samples after a trigger with volume 13, step 4 and direction
\* increase: the amplitude has risen to 15 and held it through a whole buffer
C23_Witness ==
    /\ ~panicked
    /\ square1_seen.regs.vol_envelope_reg = \hD9
    /\ square1_seen.n = 16
    /\ square1.gen.amplitude = 15
    /\ \E i \in 1..BufferLen : square1.buffer[i] = 15

\* The length the last trigger loaded: enabled by NRx4 bit 6, in samples
C24_Enabled == BitAnd(square1_seen.regs.freq_hi_reg, \h40) # 0
C24_Length == (SampleRate * (64 - BitAnd(square1_seen.regs.duty_length_reg, \h3F))) \div 256

\* The last trigger set up no frequency sweep: the phase length is the one
\* the trigger computed
C24_NoSweep == BitAnd(square1_seen.regs.sweep_reg, \h70) = 0

\* The sample the duty cycle and the envelope give position j
C24_Unsilenced(j) ==
    IF j % square1.gen.phase_len < square1.gen.duty_len THEN C23_AmplitudeAt(j) ELSE 0

\* C24: after a trigger with NRx4 bit 6 set and NRx1[5:0] = v, every sample
\* after the first sample_rate*(64-v)/256 is 0, over any number of calls of
\* generate_signal, and the counter holds what is left of that length; with
\* bit 6 clear there is no counter and (where no sweep moves the phase) every
\* sample is the one the duty cycle and the envelope give.
C24_LengthSilences ==
    (square1_seen.n # NoVal /\ ~panicked) =>
        /\ C24_Enabled =>
              /\ square1.gen.length =
                    (IF square1_seen.n < C24_Length THEN C24_Length - square1_seen.n ELSE 0)
              /\ last_op.op = "generate_signal" =>
                    \A i \in C23_Written :
                        C23_SampleNo(i) >= C24_Length => square1.buffer[i + 1] = 0
        /\ ~C24_Enabled =>
              /\ square1.gen.length = NoLength
              /\ (last_op.op = "generate_signal" /\ C24_NoSweep) =>
                    \A i \in C23_Written :
                        square1.buffer[i + 1] = C24_Unsilenced(C23_SampleNo(i))
        /\ (C24_Enabled /\ last_op.op = "generate_signal" /\ C24_NoSweep) =>
              \A i \in C23_Written :
                  C23_SampleNo(i) < C24_Length =>
                      square1.buffer[i + 1] = C24_Unsilenced(C23_SampleNo(i))

\* A buffer made after a trigger with a length of 4 samples: sample 0 sounds,
\* sample 4, which the duty cycle would sound, is silent
C24_Witness ==
    /\ ~panicked
    /\ C24_Enabled
    /\ C24_Length = 4
    /\ last_op = Op("generate_signal", 0, 8)
    /\ square1_seen.n = 8
    /\ square1.buffer[1] = 15
    /\ square1.buffer[5] = 0
    /\ C24_Unsilenced(4) = 15

\* The register image with bit 3 of NR12, resp. of NR10, inverted
C25_FlipNR12(regs) ==
    [regs EXCEPT !.vol_envelope_reg = IF BitAnd(@, \h8) # 0 THEN @ - 8 ELSE @ + 8]
C25_FlipNR10(regs) ==
    [regs EXCEPT !.sweep_reg = IF BitAnd(@, \h8) # 0 THEN @ - 8 ELSE @ + 8]

\* The frequency after k samples of a generator (0 - 1 if it panicked)
C25_FrequencyAfter(g, k) ==
    LET r == Square1Gen_generate_loop(g, [i \in 1..BufferLen |-> 0], 0, k)
    IN  IF r.panic THEN NoVal ELSE r.gen.frequency

\* C25: after a trigger the direction of the frequency sweep is the one bit 3
\* of NR10 selects and does not depend on NR12: the same trigger with bit 3
\* of NR12 inverted has the same direction and the same frequency after
\* every number of samples, and with bit 3 of NR10 inverted a sweep that is
\* on has the other direction.
C25_SweepDirFromNR10 ==
    (last_op = Op("triggered", 0, 1)) =>
        LET other == Square1Gen_init_signal(square1.gen, C25_FlipNR12(square1.regs))
            turned == Square1Gen_init_signal(square1.gen, C25_FlipNR10(square1.regs))
        IN  /\ other.freq_sweep_dir = square1.gen.freq_sweep_dir
            /\ \A k \in 0..BufferLen :
                  C25_FrequencyAfter(other, k) = C25_FrequencyAfter(square1.gen, k)
            /\ square1.gen.freq_sweep_step # 0 =>
                  turned.freq_sweep_dir # square1.gen.freq_sweep_dir

\* The slice [floor(len*start), floor(len*end)) of the buffer, start and end
\* in eighths, and the number of entries of the buffer in it
C29_From(start) == (BufferLen * start) \div 8
C29_To(end) == (BufferLen * end) \div 8
C29_InSlice(i, start, end) == C29_From(start) <= i /\ i < C29_To(end)
C29_Count(start, end) == Cardinality({i \in 0..(BufferLen - 1) : C29_InSlice(i, start, end)})

\* The generator after k samples, and the k-th sample it makes from now
C29_After(g, k) == Square1Gen_generate_loop(g, [i \in 1..BufferLen |-> 0], 0, k).gen
C29_SampleAt(g, k) == Square1Gen_sample(C29_After(g, k)).out

\* generate_signal over [0, m) and then, unless the first call panicked,
\* over [m, 1)
C29_TwoSlices(m) ==
    LET first == Square1Gen_generate_signal(square1.gen, square1.buffer, 0, m)
    IN  IF first.panic THEN first
        ELSE Square1Gen_generate_signal(first.gen, first.buffer, m, 8)

\* C29: a call generate_signal(buffer, start, end) that does not panic
\* leaves every entry outside [floor(len*start), floor(len*end)) as it was,
\* writes the entries inside with the next samples of the generator in
\* order, and leaves the generator advanced by exactly that many samples;
\* in every state, the two calls over [0, m) and [m, 1) leave the buffer and
\* the generator as the one call over [0, 1) does.
C29_SliceWrites ==
    [][(C22_Calls("generate_signal") /\ ~panicked') =>
          LET start == last_op'.loc
              end == last_op'.val
          IN  /\ \A i \in 0..(BufferLen - 1) :
                    IF C29_InSlice(i, start, end)
                    THEN square1'.buffer[i + 1] =
                            C29_SampleAt(square1.gen, i - C29_From(start))
                    ELSE square1'.buffer[i + 1] = square1.buffer[i + 1]
              /\ square1'.gen = C29_After(square1.gen, C29_Count(start, end))]_vars

C29_SlicesAdjoin ==
    \A m \in 0..8 :
        C29_TwoSlices(m) = Square1Gen_generate_signal(square1.gen, square1.buffer, 0, 8)

C29_Slices == C29_SliceWrites /\ []C29_SlicesAdjoin

\* The second of two adjacent slices made after a trigger, both holding
\* sounding samples, the first left as the first call wrote it
C29_Witness ==
    /\ ~panicked
    /\ last_op = Op("generate_signal", 3, 8)
    /\ square1_seen.n = 8
    /\ square1_seen.before[1] = 13
    /\ square1.buffer[1] = 13
    /\ square1.buffer[5] = 14

-----------------------------------------------------------------------------
(* Properties of the audio pipe (SpecPipe).                                 *)

\* Only the bus calls update_timers and render_frame put a message into the
\* channel, one each, at its end; only the audio thread takes one out, from
\* its head
C26_Roles ==
    [][/\ Len(audio_pipe') > Len(audio_pipe) =>
             /\ n_ops' # n_ops
             /\ last_op'.op \in {"update_timers", "render_frame"}
             /\ \E msg \in {UpdateMessage(last_op'.val), FrameMessage} :
                   /\ msg.kind = (IF last_op'.op = "render_frame" THEN "frame" ELSE "update")
                   /\ audio_pipe' = Append(audio_pipe, msg)
       /\ Len(audio_pipe') < Len(audio_pipe) =>
             /\ n_ops' = n_ops
             /\ audio_pipe' = Tail(audio_pipe)
             /\ pipe_seen'.received = Append(pipe_seen.received, Head(audio_pipe))
       /\ (n_ops' # n_ops /\ last_op'.op \in {"update_timers", "render_frame"}) =>
             Len(audio_pipe') = Len(audio_pipe) + 1]_vars

\* What the thread has received followed by what is in flight is what the bus
\* sent, call by call: nothing lost, nothing twice, nothing out of order
C26_Fifo == pipe_seen.received \o audio_pipe = pipe_seen.sent

\* When the thread has received a frame boundary it has received every
\* message sent before it
C26_FrameAfterUpdates ==
    \A k \in DOMAIN pipe_seen.received :
        pipe_seen.received[k].kind = "frame" =>
            /\ pipe_seen.sent[k] = FrameMessage
            /\ \A j \in 1..(k - 1) : pipe_seen.received[j] = pipe_seen.sent[j]

-----------------------------------------------------------------------------
(* Properties of the pending interrupts (SpecBus).                          *)

\* Every bit of set a is in set b
C28_Within(a, b) == BitAnd(a, b) = a

\* C28: update_timers and video_mode leave the enabled set alone and only
\* add to the pending set: update_timers adds TIMER exactly when the timer
\* reports an overflow and video_mode adds exactly the bits the video unit
\* returns; a pending bit goes away only by clear_interrupt_flag naming it
\* or by a write to 0xFF0F.
C28_PendingSticky ==
    [][/\ C22_Calls("update_timers") =>
             /\ interrupt_enable' = interrupt_enable
             /\ C28_Within(interrupt_flag, interrupt_flag')
             /\ interrupt_flag' =
                   (IF Timer_update_timers(timer, last_op'.val).overflow
                    THEN BitOr(interrupt_flag, TIMER) ELSE interrupt_flag)
       /\ C22_Calls("video_mode") =>
             /\ interrupt_enable' = interrupt_enable
             /\ C28_Within(interrupt_flag, interrupt_flag')
             /\ interrupt_flag' =
                   BitOr(interrupt_flag,
                         GBVideo_video_mode(video_device, ppu, last_op'.val).int)
       /\ ~C28_Within(interrupt_flag, interrupt_flag') =>
             \/ /\ C22_Calls("clear_interrupt_flag")
                /\ interrupt_flag' = BitAnd(interrupt_flag, BitNot8(last_op'.val))
             \/ /\ C22_Calls("write")
                /\ last_op'.loc = \hFF0F]_vars

\* V-BLANK, raised by video_mode, still pending after a call of update_timers
\* and a further call of video_mode that raised nothing
C28_Witness ==
    /\ last_op.op = "video_mode"
    /\ last_op.pending = V_BLANK
    /\ interrupt_flag = V_BLANK
    /\ Len(pipe_seen.sent) = 1
    /\ frame_seen.cycles > V_BLANK_LINE * LINE_CYCLES

-----------------------------------------------------------------------------
(* Properties of the resident pages of MBC1 (SpecCart).                     *)

\* Offsets of the switchable ROM page probed
C27_Probes == {\h0000, \h0FFF, \h1000, \h3FFF}

\* The swaps follow the selection: the bank last sought in the file is the
\* one get_rom_bank selects and the RAM offset is get_ram_bank * 0x2000
C27_SwapsFollowSelection ==
    cart.mem_bank.kind = "_1" =>
        /\ ActiveRomBank = MB1_get_rom_bank(cart.mem_bank)
        /\ cart.ram_offset = MB1_get_ram_bank(cart.mem_bank) * \h2000

\* The page at 0x4000..0x7FFF holds the selected bank: every byte the file
\* has for it, and no byte of a bank that was resident before
C27_PageIsSelectedBank ==
    cart.mem_bank.kind = "_1" =>
        \A i \in C27_Probes :
            LET off == MB1_get_rom_bank(cart.mem_bank) * \h4000 + i
                k   == PageExtent(cart.rom_bank_n, i)
            IN  IF off < rom_image.len
                THEN PageByte(rom_image, cart.rom_bank_n, i) = RomByte(rom_image, off)
                ELSE k = 0 \/ cart.rom_bank_n[k].pos = off - i

\* A command write that changes both selections seeks the new ROM bank and
\* sets the new RAM offset; one that changes neither leaves the file
\* position, the page and the RAM offset alone
C27_SwapsPerformed ==
    [][(cart.mem_bank.kind = "_1" /\ C22_Calls("write") /\ last_op'.loc < \h8000) =>
          LET rom_changed == MB1_get_rom_bank(cart'.mem_bank) # MB1_get_rom_bank(cart.mem_bank)
              ram_changed == MB1_get_ram_bank(cart'.mem_bank) # MB1_get_ram_bank(cart.mem_bank)
          IN  /\ (rom_changed /\ ram_changed) =>
                    /\ cart'.rom_file.seek = MB1_get_rom_bank(cart'.mem_bank) * \h4000
                    /\ cart'.ram_offset = MB1_get_ram_bank(cart'.mem_bank) * \h2000
              /\ (~rom_changed /\ ~ram_changed) =>
                    /\ cart'.rom_file = cart.rom_file
                    /\ cart'.rom_bank_n = cart.rom_bank_n
                    /\ cart'.ram_offset = cart.ram_offset]_vars

\* C27: on MBC1, after any writes to 0x0000-0x7FFF the page at
\* 0x4000..0x7FFF is the ROM bank get_rom_bank selects and the RAM offset is
\* get_ram_bank * 0x2000; a write that changes both selections performs both
\* swaps and a write that changes neither performs none.
C27_ResidentPage ==
    /\ [](C27_SwapsFollowSelection /\ C27_PageIsSelectedBank)
    /\ C27_SwapsPerformed

-----------------------------------------------------------------------------
(* Bounds of the cartridge RAM index (SpecCart).                            *)

\* Addresses of the cartridge RAM window probed
C31_Probes == {\hA000, \hA1FF, \hA200, \hBFFF}

\* C31: on every cartridge, in every state bus writes reach, a read or write
\* of an address in 0xA000-0xBFFF with RAM enabled (and the RAM vector, not
\* an RTC register, addressed) indexes inside the RAM vector:
\* ram_offset + (loc - 0xA000) is below the RAM size.
C31_RamIndexInBounds ==
    \A L \in C31_Probes :
        (cart.ram_enable /\ RamSelected(cart)) => RamIndexOk(cart, L - \hA000)

-----------------------------------------------------------------------------
(* Divisors of the square-1 generator (SpecSquare).                         *)

\* C32: for every register image at trigger and every number of samples
\* generated, frequency stays >= 1 and phase_len stays >= 1, so neither
\* sample_rate / frequency nor (phase + 1) % phase_len has a zero divisor
\* (no panic), and frequency never goes below 0.
C32_DivisorsNonZero ==
    /\ ~panicked
    /\ square1_seen.n # NoVal =>
          /\ square1.gen.frequency >= 1
          /\ square1.gen.phase_len >= 1

-----------------------------------------------------------------------------
(* The LCD control register (SpecVideo).                                    *)

\* The eight control fields of video unit v are the eight bits of val
C33_Decoded(v, val) ==
    /\ v.display_enable   = (Bit(val, 7) = 1)
    /\ v.window_offset    = (IF Bit(val, 6) = 1 THEN \h400 ELSE \h0)
    /\ v.window_enable    = (Bit(val, 5) = 1)
    /\ v.tile_data_select = (Bit(val, 4) = 1)
    /\ v.bg_offset        = (IF Bit(val, 3) = 1 THEN \h400 ELSE \h0)
    /\ v.sprite_size      = (Bit(val, 2) = 1)
    /\ v.sprite_enable    = (Bit(val, 1) = 1)
    /\ v.bg_enable        = (Bit(val, 0) = 1)

\* The bus of the current state after write(0xFF40, val)
C33_Written(val) == MemBus_write(Bus, \hFF40, val)

\* C33: for every byte v, a read of 0xFF40 after a write of v to 0xFF40
\* returns v, and each of the eight decoded control fields is given by one
\* bit of v; the register as it stands reads back the fields it holds, and
\* right after a write of 0xFF40 it reads the byte written.
C33_LcdcRoundTrip ==
    ~panicked =>
      /\ \A val \in Byte :
            LET written == C33_Written(val)
            IN  /\ MemBus_read(written, \hFF40) = val
                /\ C33_Decoded(written.video_device, val)
      /\ C33_Decoded(video_device, MemBus_read(Bus, \hFF40))
      /\ (last_op.op = "write" /\ last_op.loc = \hFF40) =>
            MemBus_read(Bus, \hFF40) = last_op.val

\* 0x6E, every bit the opposite of the reset value 0x91, was written and is
\* read back, both map offsets at 0x400
C33_Witness ==
    /\ ~panicked
    /\ last_op.op = "write" /\ last_op.loc = \hFF40 /\ last_op.val = \h6E
    /\ MemBus_read(Bus, \hFF40) = \h6E
    /\ video_device.window_offset = \h400 /\ video_device.bg_offset = \h400
    /\ ~video_device.display_enable

-----------------------------------------------------------------------------
(* The mapping a new cartridge starts with (SpecCart).                      *)

\* Addresses of the two ROM pages probed
C34_Probes == {\h0000, \h0147, \h3FFF, \h4000, \h4147, \h7FFF}

\* Addresses 0x0000..0x7FFF read the ROM byte at the same file offset, RAM
\* is disabled (its window reads 0) and the RAM offset is 0
C34_Mapped ==
    /\ \A L \in C34_Probes : MemBus_read(Bus, L) = RomByte(rom_image, L)
    /\ ActiveRomBank = 1
    /\ ~cart.ram_enable
    /\ cart.ram_offset = 0
    /\ MemBus_read(Bus, \hA000) = 0

\* C34: right after construction, on every cartridge type, read(L) returns
\* ROM byte L for L in 0x0000..0x3FFF and for L in 0x4000..0x7FFF (bank 1 is
\* resident), cartridge RAM is disabled and the RAM offset is 0; this stays
\* so until the first MBC command write (writes to the RAM window before it
\* change nothing).
C34_InitialMapping ==
    /\ [](last_op.op = "new" => C34_Mapped)
    /\ [][(C34_Mapped /\ InRange(last_op'.loc, \hA000, \hBFFF)) => C34_Mapped']_vars

\* A new MBC5 cartridge: the byte read at 0x4000 is the first byte of bank 1,
\* which differs from the first byte of bank 0
C34_Witness ==
    /\ last_op.op = "new"
    /\ cart.mem_bank.kind = "_5"
    /\ MemBus_read(Bus, \h4000) = RomByte(rom_image, \h4000)
    /\ MemBus_read(Bus, \h4000) # MemBus_read(Bus, \h0000)
    /\ ~cart.ram_enable

-----------------------------------------------------------------------------
(* What a DMA transfer leaves alone (SpecDma).                              *)

\* The step is a write of 0xFF46
C35_Dma == C22_Calls("write") /\ last_op'.loc = \hFF46

\* Video unit v with its sprite table put aside
C35_Registers(v) == [v EXCEPT !.sprite_mem = ZeroMem]

\* C35: a write to 0xFF46 changes nothing but the 160 OAM bytes
\* 0xFE00-0xFE9F: work RAM, high RAM, the cartridge (mapped banks, RAM,
\* RAM enable), the timer, both interrupt sets, the audio registers and every
\* video register and video memory other than OAM stay as they were; the
\* byte written reaches no register of the video unit.
C35_DmaFrameEffect ==
    [][ C35_Dma =>
          /\ ram' = ram
          /\ high_ram' = high_ram
          /\ cart' = cart
          /\ timer' = timer
          /\ interrupt_flag' = interrupt_flag
          /\ interrupt_enable' = interrupt_enable
          /\ audio_device' = audio_device
          /\ ppu' = ppu
          /\ C35_Registers(video_device)' = C35_Registers(video_device)
          /\ DOMAIN video_device.sprite_mem' \subseteq \h0..\h9F
          /\ \A L \in C1_Probes \cup {\hFF80, \hFF05, \hFF0F, \hFFFF, \hFF42,
                                       \hFF40, \h8000, \h4000, \hA000} :
                MemBus_read(Bus, L)' = MemBus_read(Bus, L)
      ]_vars

\* A transfer from the I/O page with interrupts pending: the OAM byte at
\* 0xFE0F took the value 0xFF0F reads, which the transfer left as it was
C35_Witness ==
    /\ last_op.op = "write" /\ last_op.loc = \hFF46 /\ last_op.val = \hFF
    /\ interrupt_flag # 0
    /\ MemBus_read(Bus, \hFE0F) = MemBus_read(Bus, \hFF0F)
    /\ MemBus_read(Bus, \hFE0F) # 0

====
